---- MODULE Spec2Model ----
(***************************************************************************)
(* jcodemunch-mcp: the generic tree-sitter symbol extractor                *)
(* (parser/extractor.py), the symbol record and identifier utilities       *)
(* (parser/symbols.py) and the language registry (parser/languages.py).    *)
(*                                                                         *)
(* Text is a sequence of one-character strings.  A syntax tree is a        *)
(* function from node numbers (pre-order, node 1 is the root) to node      *)
(* records; the leaf that holds a declaration's identifier is folded into  *)
(* the declaration's record as the byte range name_start..name_end, since  *)
(* no LanguageSpec lists the type of such a leaf.                          *)
(***************************************************************************)
EXTENDS Integers, Sequences, FiniteSets, TLC

VARIABLES
    language,       \* the language tag handed to parse_file
    filename,       \* the file path handed to parse_file
    source_bytes,   \* content.encode("utf-8")
    tree,           \* what parser.parse(source_bytes) returns for source_bytes
    pc,             \* "ready" before the call, "done" after it
    symbols,        \* the list parse_file returns
    origin,         \* origin[i]: the node that produced symbols[i]
    visited,        \* the nodes _walk_tree was called on, in call order
    parser_calls,   \* number of get_parser invocations
    ids,            \* the make_symbol_id calls under study: arguments and result
    batch,          \* the Symbol list handed to build_symbol_tree
    forest,         \* what build_symbol_tree returns
    flat,           \* what flatten_tree returns for the forest
    calls,          \* per thread: the arguments of its parse_file invocation
    threads,        \* per thread: position, tree, pending _walk_tree frames, result
    lists,          \* the symbols lists the invocations allocated
    registry,       \* the module global LANGUAGE_REGISTRY
    disk,           \* the source file index_folder reads: its bytes and structure
    failure,        \* the failure index_folder reports for the file, or None
    files,          \* what is under the IndexStore's base_path
    ret,            \* the last IndexStore call: operation, arguments, value
    last_op,        \* per (owner, name): the last save_index or delete_index call
    linesep,        \* os.linesep of the platform the store runs on
    to_summarize,   \* the Symbol list as handed to summarize_symbols_simple
    summarized      \* the list summarize_symbols_simple returns
parse_vars == <<language, filename, source_bytes, tree, symbols, origin,
                visited, parser_calls>>
hier_vars == <<batch, forest, flat>>
par_vars == <<calls, threads, lists, registry>>
enc_vars == <<disk, failure>>
store_vars == <<files, ret, last_op, linesep>>
sum_vars == <<to_summarize, summarized>>
vars == <<parse_vars, pc, ids, hier_vars, par_vars, enc_vars, store_vars,
          sum_vars>>

----------------------------------------------------------------------------
(* Bounds of the model *)

\* number of nodes of a syntax tree of a language in DeepLanguages, the root
\* included; the trees of the other languages have one node less (TreeSize)
MaxNodes == 4
\* number of places of a syntax tree where the parser reported an error
MaxErrors == 1
\* length of a file path or qualified name handed to make_symbol_id alone
MaxLen == 2

----------------------------------------------------------------------------
(* parser/languages.py *)

None == "None"

PYTHON_SPEC ==
    [ ts_language |-> "python",
      symbol_node_types |-> ("function_definition" :> "function" @@
                             "class_definition" :> "class"),
      name_fields |-> ("function_definition" :> "name" @@
                       "class_definition" :> "name"),
      docstring_strategy |-> "next_sibling_string",
      decorator_node_type |-> "decorator",
      container_node_types |-> <<"class_definition">>,
      constant_patterns |-> <<"assignment">>,
      type_patterns |-> <<"type_alias_statement">> ]

JAVASCRIPT_SPEC ==
    [ ts_language |-> "javascript",
      symbol_node_types |-> ("function_declaration" :> "function" @@
                             "class_declaration" :> "class" @@
                             "method_definition" :> "method" @@
                             "arrow_function" :> "function" @@
                             "generator_function_declaration" :> "function"),
      name_fields |-> ("function_declaration" :> "name" @@
                       "class_declaration" :> "name" @@
                       "method_definition" :> "name"),
      docstring_strategy |-> "preceding_comment",
      decorator_node_type |-> None,
      container_node_types |-> <<"class_declaration", "class">>,
      constant_patterns |-> <<"lexical_declaration">>,
      type_patterns |-> <<>> ]

TYPESCRIPT_SPEC ==
    [ ts_language |-> "typescript",
      symbol_node_types |-> ("function_declaration" :> "function" @@
                             "class_declaration" :> "class" @@
                             "method_definition" :> "method" @@
                             "arrow_function" :> "function" @@
                             "interface_declaration" :> "type" @@
                             "type_alias_declaration" :> "type" @@
                             "enum_declaration" :> "type"),
      name_fields |-> ("function_declaration" :> "name" @@
                       "class_declaration" :> "name" @@
                       "method_definition" :> "name" @@
                       "interface_declaration" :> "name" @@
                       "type_alias_declaration" :> "name" @@
                       "enum_declaration" :> "name"),
      docstring_strategy |-> "preceding_comment",
      decorator_node_type |-> "decorator",
      container_node_types |-> <<"class_declaration", "class">>,
      constant_patterns |-> <<"lexical_declaration">>,
      type_patterns |-> <<"interface_declaration", "type_alias_declaration",
                          "enum_declaration">> ]

GO_SPEC ==
    [ ts_language |-> "go",
      symbol_node_types |-> ("function_declaration" :> "function" @@
                             "method_declaration" :> "method" @@
                             "type_declaration" :> "type"),
      name_fields |-> ("function_declaration" :> "name" @@
                       "method_declaration" :> "name" @@
                       "type_declaration" :> "name"),
      docstring_strategy |-> "preceding_comment",
      decorator_node_type |-> None,
      container_node_types |-> <<>>,
      constant_patterns |-> <<"const_declaration">>,
      type_patterns |-> <<"type_declaration">> ]

RUST_SPEC ==
    [ ts_language |-> "rust",
      symbol_node_types |-> ("function_item" :> "function" @@
                             "struct_item" :> "type" @@
                             "enum_item" :> "type" @@
                             "trait_item" :> "type" @@
                             "impl_item" :> "class" @@
                             "type_item" :> "type"),
      name_fields |-> ("function_item" :> "name" @@
                       "struct_item" :> "name" @@
                       "enum_item" :> "name" @@
                       "trait_item" :> "name" @@
                       "type_item" :> "name"),
      docstring_strategy |-> "preceding_comment",
      decorator_node_type |-> "attribute_item",
      container_node_types |-> <<"impl_item", "trait_item">>,
      constant_patterns |-> <<"const_item", "static_item">>,
      type_patterns |-> <<"struct_item", "enum_item", "trait_item", "type_item">> ]

JAVA_SPEC ==
    [ ts_language |-> "java",
      symbol_node_types |-> ("method_declaration" :> "method" @@
                             "constructor_declaration" :> "method" @@
                             "class_declaration" :> "class" @@
                             "interface_declaration" :> "type" @@
                             "enum_declaration" :> "type"),
      name_fields |-> ("method_declaration" :> "name" @@
                       "constructor_declaration" :> "name" @@
                       "class_declaration" :> "name" @@
                       "interface_declaration" :> "name" @@
                       "enum_declaration" :> "name"),
      docstring_strategy |-> "preceding_comment",
      decorator_node_type |-> "marker_annotation",
      container_node_types |-> <<"class_declaration", "interface_declaration",
                                 "enum_declaration">>,
      constant_patterns |-> <<"field_declaration">>,
      type_patterns |-> <<"interface_declaration", "enum_declaration">> ]

LANGUAGE_REGISTRY ==
    "python" :> PYTHON_SPEC @@
    "javascript" :> JAVASCRIPT_SPEC @@
    "typescript" :> TYPESCRIPT_SPEC @@
    "go" :> GO_SPEC @@
    "rust" :> RUST_SPEC @@
    "java" :> JAVA_SPEC

\* x in a Python list
InList(x, list) == \E i \in 1..Len(list) : list[i] = x

----------------------------------------------------------------------------
(* Text *)

\* text[start:end] of Python, on 0-based byte offsets
Slice(text, start, end) == SubSeq(text, start + 1, end)

\* text.replace(old, new) for a one-character old
Replace(text, old, new) ==
    [i \in 1..Len(text) |-> IF text[i] = old THEN new ELSE text[i]]

UpperChars == {"A", "B", "C", "D", "E", "F", "G", "H", "I", "J", "K", "L", "M",
               "N", "O", "P", "Q", "R", "S", "T", "U", "V", "W", "X", "Y", "Z"}
LowerChars == {"a", "b", "c", "d", "e", "f", "g", "h", "i", "j", "k", "l", "m",
               "n", "o", "p", "q", "r", "s", "t", "u", "v", "w", "x", "y", "z"}

\* str.isupper(): some cased character, and no lower-case one
IsUpper(text) ==
    /\ \E i \in 1..Len(text) : text[i] \in UpperChars
    /\ \A i \in 1..Len(text) : text[i] \notin LowerChars

\* the characters str.strip() removes
Whitespace == {" ", "\n", "\t", "\r"}

RECURSIVE LStrip(_)
LStrip(text) ==
    IF text # <<>> /\ Head(text) \in Whitespace THEN LStrip(Tail(text)) ELSE text

RECURSIVE RStrip(_)
RStrip(text) ==
    IF text # <<>> /\ text[Len(text)] \in Whitespace
    THEN RStrip(SubSeq(text, 1, Len(text) - 1)) ELSE text

\* str.strip()
Strip(text) == RStrip(LStrip(text))

\* str.index(ch), for a text that holds ch, counted from 0
IndexOf(text, ch) ==
    (CHOOSE k \in 1..Len(text) :
        text[k] = ch /\ \A j \in 1..(k - 1) : text[j] # ch) - 1

\* text[:n]
Prefix(text, n) == SubSeq(text, 1, IF n < Len(text) THEN n ELSE Len(text))

RECURSIVE RStripChars(_, _)
\* str.rstrip(chars)
RStripChars(text, chars) ==
    IF text # <<>> /\ text[Len(text)] \in chars
    THEN RStripChars(SubSeq(text, 1, Len(text) - 1), chars) ELSE text

\* str.startswith(prefix), str.endswith(suffix)
StartsWith(text, prefix) ==
    Len(text) >= Len(prefix) /\ SubSeq(text, 1, Len(prefix)) = prefix
EndsWith(text, suffix) ==
    /\ Len(text) >= Len(suffix)
    /\ SubSeq(text, Len(text) - Len(suffix) + 1, Len(text)) = suffix

RECURSIVE Split(_, _)
\* str.split(sep) for a one-character sep: the list of pieces
Split(text, sep) ==
    IF ~InList(sep, text) THEN <<text>>
    ELSE <<Prefix(text, IndexOf(text, sep))>>
         \o Split(SubSeq(text, IndexOf(text, sep) + 2, Len(text)), sep)

RECURSIVE Join(_, _)
\* sep.join(pieces)
Join(sep, pieces) ==
    IF pieces = <<>> THEN <<>>
    ELSE IF Len(pieces) = 1 THEN pieces[1]
    ELSE pieces[1] \o sep \o Join(sep, Tail(pieces))

\* UTF-8: a byte is a one-character string for an ASCII byte or the name of
\* a byte above 0x7F; a character is a one-character string or U+FFFD
ReplacementChar == "uFFFD"
ReplacementBytes == <<"xEF", "xBF", "xBD">>
HighBytes == {"xEF", "xBF", "xBD", "xFF"}

\* the first position of a text that holds a character of the set chars
FirstOf(text, chars) ==
    CHOOSE k \in DOMAIN text :
        text[k] \in chars /\ \A j \in 1..(k - 1) : text[j] \notin chars

RECURSIVE Encode(_)
\* str.encode("utf-8"): an ASCII character is its own byte
Encode(text) ==
    IF \A k \in DOMAIN text : text[k] # ReplacementChar THEN text
    ELSE LET k == FirstOf(text, {ReplacementChar})
         IN  SubSeq(text, 1, k - 1) \o ReplacementBytes
                 \o Encode(SubSeq(text, k + 1, Len(text)))

RECURSIVE Decode(_, _)
\* bytes.decode("utf-8", errors): ok is FALSE where Python raises
\* UnicodeDecodeError; with errors = "replace" a byte that starts no valid
\* sequence becomes U+FFFD
Decode(bytes, errors) ==
    IF \A k \in DOMAIN bytes : bytes[k] \notin HighBytes
    THEN [ok |-> TRUE, text |-> bytes]
    ELSE LET k == FirstOf(bytes, HighBytes)
             ascii == SubSeq(bytes, 1, k - 1)
         IN  IF Len(bytes) >= k + 2 /\ SubSeq(bytes, k, k + 2) = ReplacementBytes
             THEN LET r == Decode(SubSeq(bytes, k + 3, Len(bytes)), errors)
                  IN  [ok |-> r.ok,
                       text |-> ascii \o <<ReplacementChar>> \o r.text]
             ELSE IF errors = "replace"
             THEN LET r == Decode(SubSeq(bytes, k + 1, Len(bytes)), errors)
                  IN  [ok |-> r.ok,
                       text |-> ascii \o <<ReplacementChar>> \o r.text]
             ELSE [ok |-> FALSE, text |-> ascii]

----------------------------------------------------------------------------
(* parser/symbols.py *)

\* Optional[str] = None for an identifier
NoId == <<>>

slugify(text) == Replace(Replace(text, "/", "-"), ".", "-")

make_symbol_id(file_path, qualified_name) ==
    slugify(file_path) \o <<":", ":">> \o qualified_name

----------------------------------------------------------------------------
(* The syntax trees tree-sitter hands to the extractor *)

\* a node type no LanguageSpec lists (a block, a statement, an expression)
OtherType == "block"

RootType(lang) ==
    CASE lang \in {"javascript", "typescript", "java"} -> "program"
      [] lang \in {"go", "rust"} -> "source_file"
      [] OTHER -> "module"

\* language tags handed to parse_file: the registry's and one it does not know
LanguageTags == DOMAIN LANGUAGE_REGISTRY \cup {"cobol"}

\* the grammar whose trees a tag's content is drawn from
GrammarOf(lang) == IF lang \in DOMAIN LANGUAGE_REGISTRY THEN lang ELSE "python"

Range(f) == {f[x] : x \in DOMAIN f}

TreeTypes(lang) ==
    LET spec == LANGUAGE_REGISTRY[GrammarOf(lang)]
    IN  DOMAIN spec.symbol_node_types \cup Range(spec.constant_patterns)
            \cup {OtherType}

\* where the grammar puts the identifier a node of this type declares:
\* its own field "name" or "left", the field "name" of its type_spec child,
\* or nowhere
GrammarSlot(type) ==
    CASE type = "assignment" -> "left"
      [] type = "type_declaration" -> "type_spec"
      [] type \in {"arrow_function", "impl_item", "lexical_declaration",
                   "const_declaration", "field_declaration", OtherType,
                   "module", "program", "source_file"} -> None
      [] OTHER -> "name"

Names == {<<"A">>, <<"f">>}

\* the text of an assignment target that is no identifier (an attribute)
AttributeText == <<"A", ".", "A">>

\* the types whose grammar lets the identifier be absent from a node the
\* parser accepted: a Go type_declaration holding a type_alias and no type_spec
NameOptional(type) == type = "type_declaration"

\* what one node can be: its type, the text of the identifier it declares
\* (empty: the node has no identifier child) and the type of that child
NodeForms(lang) ==
    {[type |-> t, name |-> <<>>, name_type |-> None] :
        t \in {u \in TreeTypes(lang) : GrammarSlot(u) = None \/ NameOptional(u)}}
    \cup
    {[type |-> t, name |-> nm, name_type |-> "identifier"] :
        t \in {u \in TreeTypes(lang) : GrammarSlot(u) # None}, nm \in Names}
    \cup
    {[type |-> t, name |-> AttributeText, name_type |-> "attribute"] :
        t \in TreeTypes(lang) \cap {"assignment"}}

RECURSIVE Chain(_, _)
\* node n and its ancestors, for the parent function up (0 above the root)
Chain(up, n) == IF n = 0 THEN {} ELSE {n} \cup Chain(up, up[n])

\* the languages whose trees have MaxNodes nodes: python has the constants,
\* javascript the declarations without a name (arrow_function)
DeepLanguages == {"python", "javascript"}

\* number of nodes of the trees drawn for a language tag
TreeSize(lang) == IF lang \in DeepLanguages THEN MaxNodes ELSE MaxNodes - 1

\* the tree shapes on N nodes, numbered in document order (pre-order)
Shapes(N) ==
    {up \in [1..N -> 0..(N - 1)] :
        /\ up[1] = 0
        /\ \A i \in 2..N : up[i] \in Chain(up, i - 1)}

\* the nodes where the parser reported an error (an ERROR or MISSING node)
ErrorLoci(N) == {L \in SUBSET (1..N) : Cardinality(L) <= MaxErrors}

SetMax(S) == CHOOSE x \in S : \A y \in S : y <= x

RECURSIVE Sum(_, _)
Sum(f, n) == IF n = 0 THEN 0 ELSE f[n] + Sum(f, n - 1)

RECURSIVE Concat(_, _)
Concat(f, n) == IF n = 0 THEN <<>> ELSE Concat(f, n - 1) \o f[n]

\* the text a node contributes itself: a one-byte keyword (nothing when the
\* parser inserted the node as MISSING) followed by its identifier
Keyword(n, loci) == IF n \in loci THEN <<>> ELSE <<"k">>
OwnText(n, form, loci) == Keyword(n, loci) \o form[n].name

SourceOf(form, loci) ==
    Concat([n \in DOMAIN form |-> OwnText(n, form, loci)], Len(form))

RECURSIVE Descending(_)
\* the numbers of a set, the greatest first
Descending(S) ==
    IF S = {} THEN <<>> ELSE <<SetMax(S)>> \o Descending(S \ {SetMax(S)})

\* the tree of shape up whose nodes have the given forms: every node starts
\* on a line of its own, and has_error is set on the error nodes and on all
\* their ancestors, as tree-sitter does.  No child of these trees sits in
\* the field "body"; prev is the chain node.prev_named_sibling follows (all
\* nodes are named), the nearest sibling first.
MakeTree(up, form, loci) ==
    LET own == [n \in DOMAIN up |-> Len(OwnText(n, form, loci))]
        last(n) == SetMax({d \in DOMAIN up : n \in Chain(up, d)})
        row(n) == IF n = 1 THEN 0 ELSE n - 2
        before(n) == Descending({s \in DOMAIN up : s < n /\ up[s] = up[n]})
    IN  [n \in DOMAIN up |->
            [ type |-> form[n].type,
              up |-> up[n],
              has_error |-> \E e \in loci : n \in Chain(up, e),
              start_byte |-> Sum(own, n - 1),
              end_byte |-> Sum(own, last(n)),
              start_row |-> row(n),
              end_row |-> row(last(n)),
              name_slot |-> GrammarSlot(form[n].type),
              name_type |-> form[n].name_type,
              name_start |-> Sum(own, n - 1) + Len(Keyword(n, loci)),
              name_end |-> Sum(own, n),
              body |-> <<>>,
              prev |-> [k \in DOMAIN before(n) |->
                          [ type |-> form[before(n)[k]].type,
                            start_byte |-> Sum(own, before(n)[k] - 1),
                            end_byte |-> Sum(own, last(before(n)[k])) ]] ]]

RootForm(lang) == [type |-> RootType(lang), name |-> <<>>, name_type |-> None]

\* node.children, in document order
Children(t, n) ==
    LET kids == {c \in DOMAIN t : t[c].up = n}
        nth[i \in 1..Cardinality(kids)] ==
            CHOOSE c \in kids : Cardinality({d \in kids : d < c}) = i - 1
    IN  nth

\* node.child_by_field_name(field): a sequence of zero or one child
ChildByFieldName(node, field) ==
    IF field = "body" THEN node.body
    ELSE IF node.name_slot = field /\ node.name_end > node.name_start
    THEN <<[type |-> node.name_type,
            start_byte |-> node.name_start, end_byte |-> node.name_end]>>
    ELSE <<>>

----------------------------------------------------------------------------
(* parser/extractor.py *)

\* source_bytes[node.start_byte:node.end_byte].decode("utf-8"); the bytes are
\* a run of whole characters of content.encode("utf-8"), so the decoding
\* cannot raise
NodeText(src, node) ==
    Decode(Slice(src, node.start_byte, node.end_byte), "strict").text

\* _extract_name: the name, or the empty text for None
ExtractName(node, spec, src) ==
    IF node.type = "arrow_function" THEN <<>>
    ELSE IF node.type = "type_declaration"
    THEN LET name_node == ChildByFieldName(node, "type_spec")
         IN  IF name_node # <<>> THEN NodeText(src, name_node[1]) ELSE <<>>
    ELSE IF node.type \notin DOMAIN spec.name_fields THEN <<>>
    ELSE LET name_node == ChildByFieldName(node, spec.name_fields[node.type])
         IN  IF name_node # <<>> THEN NodeText(src, name_node[1]) ELSE <<>>

\* the characters _build_signature strips from the end
SignatureTail == {"{", ":", " ", "\n", "\t"}

\* BuildSignature reading up to the end of the node whether or not the node
\* has a body
BuildSignature_WithBody(node, spec, src) ==
    RStripChars(Strip(Decode(Slice(src, node.start_byte, node.end_byte),
                             "strict").text),
                SignatureTail)

\* _build_signature
BuildSignature(node, spec, src) ==
    LET body == ChildByFieldName(node, "body")
        end_byte == IF body # <<>> THEN body[1].start_byte ELSE node.end_byte
        sig_text == Strip(Decode(Slice(src, node.start_byte, end_byte),
                                 "strict").text)
    IN  RStripChars(sig_text, SignatureTail)

TripleDouble == <<"\"", "\"", "\"">>
TripleSingle == <<"'", "'", "'">>

\* _strip_quotes
StripQuotes(text0) ==
    LET text == Strip(text0)
    IN  IF StartsWith(text, TripleDouble) /\ EndsWith(text, TripleDouble)
        THEN Strip(Slice(text, 3, Len(text) - 3))
        ELSE IF StartsWith(text, TripleSingle) /\ EndsWith(text, TripleSingle)
        THEN Strip(Slice(text, 3, Len(text) - 3))
        ELSE IF StartsWith(text, <<"\"">>) /\ EndsWith(text, <<"\"">>)
        THEN Strip(Slice(text, 1, Len(text) - 1))
        ELSE IF StartsWith(text, <<"'">>) /\ EndsWith(text, <<"'">>)
        THEN Strip(Slice(text, 1, Len(text) - 1))
        ELSE text

RECURSIVE DocstringLoop(_, _)
\* the loop of _extract_python_docstring over body.children: a sequence of
\* zero (the loop ran out) or one text (a return)
DocstringLoop(kids, src) ==
    IF kids = <<>> THEN <<>>
    ELSE LET child == Head(kids)
         IN  IF child.type = "expression_statement"
             THEN IF child.expression # <<>> /\ child.expression[1].type = "string"
                  THEN <<StripQuotes(NodeText(src, child.expression[1]))>>
                  ELSE IF child.children # <<>>
                          /\ child.children[1].type \in {"string", "concatenated_string"}
                  THEN <<StripQuotes(NodeText(src, child.children[1]))>>
                  ELSE DocstringLoop(Tail(kids), src)
             ELSE IF child.type = "string"
             THEN <<StripQuotes(NodeText(src, child))>>
             ELSE DocstringLoop(Tail(kids), src)

\* _extract_python_docstring
ExtractPythonDocstring(node, src) ==
    LET body == ChildByFieldName(node, "body")
    IN  IF body = <<>> \/ body[1].children = <<>> THEN <<>>
        ELSE LET doc == DocstringLoop(body[1].children, src)
             IN  IF doc # <<>> THEN doc[1] ELSE <<>>

\* one line of _clean_comment_markers, lines 247-266
CleanLine(line0) ==
    LET line == Strip(line0)
        line1 == IF StartsWith(line, <<"/", "*", "*">>) THEN Slice(line, 3, Len(line))
                 ELSE IF StartsWith(line, <<"/", "*">>) THEN Slice(line, 2, Len(line))
                 ELSE IF StartsWith(line, <<"/", "/", "/">>) THEN Slice(line, 3, Len(line))
                 ELSE IF StartsWith(line, <<"/", "/">>) THEN Slice(line, 2, Len(line))
                 ELSE IF StartsWith(line, <<"/", "/", "!">>) THEN Slice(line, 3, Len(line))
                 ELSE IF StartsWith(line, <<"*">>) THEN Slice(line, 1, Len(line))
                 ELSE line
        line2 == IF EndsWith(line1, <<"*", "/">>)
                 THEN Slice(line1, 0, Len(line1) - 2) ELSE line1
    IN  Strip(line2)

\* _clean_comment_markers
CleanCommentMarkers(text) ==
    LET lines == Split(text, "\n")
        cleaned == [k \in DOMAIN lines |-> CleanLine(lines[k])]
    IN  Strip(Join(<<"\n">>, cleaned))

CommentTypes == {"comment", "line_comment", "block_comment"}

RECURSIVE PrecedingRun_All(_, _)
\* PrecedingRun passing over the siblings of other types
PrecedingRun_All(prev, types) ==
    IF prev = <<>> THEN <<>>
    ELSE IF Head(prev).type \in types
    THEN Append(PrecedingRun_All(Tail(prev), types), Head(prev))
    ELSE PrecedingRun_All(Tail(prev), types)

RECURSIVE PrecedingRun(_, _)
\* the siblings a backward walk over prev_named_sibling collects while their
\* type is in types, in source order (each is inserted at position 0)
PrecedingRun(prev, types) ==
    IF prev # <<>> /\ Head(prev).type \in types
    THEN Append(PrecedingRun(Tail(prev), types), Head(prev))
    ELSE <<>>

\* _extract_preceding_comments
ExtractPrecedingComments(node, src) ==
    LET run == PrecedingRun(node.prev, CommentTypes)
        comments == [k \in DOMAIN run |-> NodeText(src, run[k])]
    IN  IF comments = <<>> THEN <<>>
        ELSE CleanCommentMarkers(Join(<<"\n">>, comments))

\* _extract_docstring
ExtractDocstring(node, spec, src) ==
    IF spec.docstring_strategy = "next_sibling_string"
    THEN ExtractPythonDocstring(node, src)
    ELSE IF spec.docstring_strategy = "preceding_comment"
    THEN ExtractPrecedingComments(node, src)
    ELSE <<>>

\* _extract_decorators
ExtractDecorators(node, spec, src) ==
    IF spec.decorator_node_type = None THEN <<>>
    ELSE LET run == PrecedingRun(node.prev, {spec.decorator_node_type})
         IN  [k \in DOMAIN run |-> Strip(NodeText(src, run[k]))]

\* the qualified name _extract_symbol builds; parent_symbol is a sequence of
\* zero (None) or one Symbol
QualifiedName(parent_symbol, name) ==
    IF parent_symbol # <<>>
    THEN parent_symbol[1].name \o <<".">> \o name
    ELSE name

\* PromoteKind without the promotion of line 90
PromoteKind_Unpromoted(parent_symbol, kind) == kind

\* the kind _extract_symbol gives a node the LanguageSpec maps to `kind`
PromoteKind(parent_symbol, kind) ==
    IF parent_symbol # <<>>
    THEN (IF kind = "function" THEN "method" ELSE kind)
    ELSE kind

\* parent_symbol.id if parent_symbol else None
ParentRef(parent_symbol) ==
    IF parent_symbol # <<>> THEN parent_symbol[1].id ELSE NoId

\* node.start_point[0] + 1, node.end_point[0] + 1
Line(node) == node.start_row + 1
EndLine(node) == node.end_row + 1

ByteOffset(node) == node.start_byte

\* ByteLength with the end byte taken for the length
ByteLength_EndByte(node) == node.end_byte

ByteLength(node) == node.end_byte - node.start_byte

\* ExtractSymbol without the has_error test of lines 79-80
ExtractSymbol_IgnoringErrors(node, spec, src, fname, lang, parent_symbol) ==
    LET kind == spec.symbol_node_types[node.type]
        name == ExtractName(node, spec, src)
        qualified_name == QualifiedName(parent_symbol, name)
    IN  IF name = <<>> THEN <<>>
        ELSE <<[ id |-> make_symbol_id(fname, qualified_name),
                 file |-> fname,
                 name |-> name,
                 qualified_name |-> qualified_name,
                 kind |-> PromoteKind(parent_symbol, kind),
                 language |-> lang,
                 signature |-> BuildSignature(node, spec, src),
                 docstring |-> ExtractDocstring(node, spec, src),
                 decorators |-> ExtractDecorators(node, spec, src),
                 parent |-> ParentRef(parent_symbol),
                 line |-> Line(node),
                 end_line |-> EndLine(node),
                 byte_offset |-> ByteOffset(node),
                 byte_length |-> ByteLength(node) ]>>

\* _extract_symbol: a sequence of zero (None) or one Symbol
ExtractSymbol(node, spec, src, fname, lang, parent_symbol) ==
    LET kind == spec.symbol_node_types[node.type]
        name == ExtractName(node, spec, src)
        qualified_name == QualifiedName(parent_symbol, name)
    IN  IF node.has_error THEN <<>>
        ELSE IF name = <<>> THEN <<>>
        ELSE <<[ id |-> make_symbol_id(fname, qualified_name),
                 file |-> fname,
                 name |-> name,
                 qualified_name |-> qualified_name,
                 kind |-> PromoteKind(parent_symbol, kind),
                 language |-> lang,
                 signature |-> BuildSignature(node, spec, src),
                 docstring |-> ExtractDocstring(node, spec, src),
                 decorators |-> ExtractDecorators(node, spec, src),
                 parent |-> ParentRef(parent_symbol),
                 line |-> Line(node),
                 end_line |-> EndLine(node),
                 byte_offset |-> ByteOffset(node),
                 byte_length |-> ByteLength(node) ]>>

\* sig[:100]
ConstantSignatureLimit == 100

\* IsConstantName with the upper-case test alone
IsConstantName_UpperOnly(name) == IsUpper(name)

\* the test _extract_constant applies to the name on the left
IsConstantName(name) ==
    IsUpper(name) \/ (Len(name) > 1 /\ name[1] \in UpperChars /\ InList("_", name))

\* ExtractConstant taking the identifier of a node of any type in
\* constant_patterns
ExtractConstant_AnyPattern(node, spec, src, fname, lang) ==
    LET name == Decode(Slice(src, node.name_start, node.name_end), "strict").text
    IN  IF name = <<>> \/ ~IsConstantName(name) THEN <<>>
        ELSE <<[ id |-> make_symbol_id(fname, name),
                 file |-> fname,
                 name |-> name,
                 qualified_name |-> name,
                 kind |-> "constant",
                 language |-> lang,
                 signature |-> Prefix(Strip(NodeText(src, node)),
                                      ConstantSignatureLimit),
                 docstring |-> <<>>,
                 decorators |-> <<>>,
                 parent |-> NoId,
                 line |-> Line(node),
                 end_line |-> EndLine(node),
                 byte_offset |-> ByteOffset(node),
                 byte_length |-> ByteLength(node) ]>>

\* _extract_constant: a sequence of zero (None) or one Symbol
ExtractConstant(node, spec, src, fname, lang) ==
    IF node.type # "assignment" THEN <<>>
    ELSE LET left == ChildByFieldName(node, "left")
         IN  IF left = <<>> THEN <<>>
             ELSE IF left[1].type # "identifier" THEN <<>>
             ELSE LET name == NodeText(src, left[1])
                  IN  IF ~IsConstantName(name) THEN <<>>
                      ELSE <<[ id |-> make_symbol_id(fname, name),
                               file |-> fname,
                               name |-> name,
                               qualified_name |-> name,
                               kind |-> "constant",
                               language |-> lang,
                               signature |-> Prefix(Strip(NodeText(src, node)),
                                                    ConstantSignatureLimit),
                               docstring |-> <<>>,
                               decorators |-> <<>>,
                               parent |-> NoId,
                               line |-> Line(node),
                               end_line |-> EndLine(node),
                               byte_offset |-> ByteOffset(node),
                               byte_length |-> ByteLength(node) ]>>

\* Emit with symbols.insert(0, symbol) for symbols.append(symbol)
Emit_AtFront(acc, symbol, n) ==
    [acc EXCEPT !.symbols = <<symbol>> \o @, !.origin = <<n>> \o @]

\* symbols.append(symbol), with the node that produced the symbol
Emit(acc, symbol, n) ==
    [acc EXCEPT !.symbols = Append(@, symbol), !.origin = Append(@, n)]

\* VisitNode with the enclosing symbol kept in one shared variable that is
\* set on every emitted Symbol and never restored
VisitNode_GlobalContext(t, n, spec, src, fname, lang, acc, parent_symbol) ==
    LET node == t[n]
        current == IF acc.symbols = <<>> THEN <<>>
                   ELSE <<acc.symbols[Len(acc.symbols)]>>
        seen == [acc EXCEPT !.visited = Append(@, n)]
        symbol == IF node.type \in DOMAIN spec.symbol_node_types
                  THEN ExtractSymbol(node, spec, src, fname, lang, current)
                  ELSE <<>>
        acc1 == IF symbol # <<>> THEN Emit(seen, symbol[1], n) ELSE seen
        parent1 == IF symbol # <<>> THEN symbol ELSE current
        const_symbol == IF InList(node.type, spec.constant_patterns) /\ parent1 = <<>>
                        THEN ExtractConstant(node, spec, src, fname, lang)
                        ELSE <<>>
        acc2 == IF const_symbol # <<>> THEN Emit(acc1, const_symbol[1], n) ELSE acc1
    IN  [acc |-> acc2, parent_symbol |-> parent1]

\* the end of a visit: symbols.append(const_symbol) where _extract_constant
\* returned one
VisitEnd(acc1, parent1, n, const_symbol) ==
    [acc |-> IF const_symbol # <<>> THEN Emit(acc1, const_symbol[1], n) ELSE acc1,
     parent_symbol |-> parent1]

\* a visit from the test of constant_patterns on: acc1 and parent1 are the
\* list and the parent_symbol after the symbol of the node
VisitConstant(node, n, spec, src, fname, lang, acc1, parent1) ==
    VisitEnd(acc1, parent1, n,
             IF InList(node.type, spec.constant_patterns) /\ parent1 = <<>>
             THEN ExtractConstant(node, spec, src, fname, lang)
             ELSE <<>>)

\* a visit once _extract_symbol has returned symbol
VisitSymbol(node, n, spec, src, fname, lang, seen, parent_symbol, symbol) ==
    VisitConstant(node, n, spec, src, fname, lang,
                  IF symbol # <<>> THEN Emit(seen, symbol[1], n) ELSE seen,
                  IF symbol # <<>> THEN symbol ELSE parent_symbol)

\* _walk_tree before it recurses: the symbols list and the parent_symbol it
\* hands to the children of node n
VisitNode(t, n, spec, src, fname, lang, acc, parent_symbol) ==
    VisitSymbol(t[n], n, spec, src, fname, lang,
                [acc EXCEPT !.visited = Append(@, n)], parent_symbol,
                IF t[n].type \in DOMAIN spec.symbol_node_types
                THEN ExtractSymbol(t[n], spec, src, fname, lang, parent_symbol)
                ELSE <<>>)

\* WalkedChildren with the walk stopping below a node marked has_error
WalkedChildren_StopAtError(t, n) == IF t[n].has_error THEN <<>> ELSE Children(t, n)

\* the children _walk_tree recurses into
WalkedChildren(t, n) == Children(t, n)

RECURSIVE WalkTree(_, _, _, _, _, _, _, _)
RECURSIVE WalkChildren(_, _, _, _, _, _, _, _)
RECURSIVE WalkBelow(_, _, _, _, _, _, _)
\* _walk_tree
WalkTree(t, n, spec, src, fname, lang, acc, parent_symbol) ==
    WalkBelow(t, WalkedChildren(t, n), spec, src, fname, lang,
              VisitNode(t, n, spec, src, fname, lang, acc, parent_symbol))

\* the recursion of _walk_tree, v being the list and the parent_symbol after
\* the node itself
WalkBelow(t, kids, spec, src, fname, lang, v) ==
    WalkChildren(t, kids, spec, src, fname, lang, v.acc, v.parent_symbol)

\* for child in node.children: _walk_tree(child, ..., symbols, parent_symbol)
WalkChildren(t, kids, spec, src, fname, lang, acc, parent_symbol) ==
    IF kids = <<>> THEN acc
    ELSE WalkChildren(t, Tail(kids), spec, src, fname, lang,
                      WalkTree(t, Head(kids), spec, src, fname, lang,
                               acc, parent_symbol),
                      parent_symbol)

EmptyWalk == [symbols |-> <<>>, origin |-> <<>>, visited |-> <<>>]

\* ParseFile with LANGUAGE_REGISTRY.get(language, PYTHON_SPEC) for an unknown tag
ParseFile_DefaultSpec(t, src, fname, lang) ==
    LET spec == IF lang \in DOMAIN LANGUAGE_REGISTRY
                THEN LANGUAGE_REGISTRY[lang] ELSE PYTHON_SPEC
    IN  [walk |-> WalkTree(t, 1, spec, src, fname, lang, EmptyWalk, <<>>),
         parser_calls |-> 1]

\* parse_file: the returned list, with the walk's record and the number of
\* parsers it asked for; t is the tree parser.parse gives for the content
ParseFile(t, src, fname, lang) ==
    IF lang \notin DOMAIN LANGUAGE_REGISTRY
    THEN [walk |-> EmptyWalk, parser_calls |-> 0]
    ELSE LET spec == LANGUAGE_REGISTRY[lang]
         IN  [walk |-> WalkTree(t, 1, spec, src, fname, lang, EmptyWalk, <<>>),
              parser_calls |-> 1]

----------------------------------------------------------------------------
(* parser/hierarchy.py: SymbolNode k is the node allocated for the k-th Symbol
   of the input list; a forest is the list of root nodes, the children list
   of every node and the Symbol every node wraps *)

\* node_map = {s.id: SymbolNode(symbol=s) for s in symbols}: one entry per
\* id, holding the node of the last Symbol that has this id
node_map(syms) ==
    [i \in {syms[k].id : k \in DOMAIN syms} |->
        CHOOSE k \in DOMAIN syms :
            /\ syms[k].id = i
            /\ \A j \in DOMAIN syms : syms[j].id = i => j <= k]

\* the condition under which build_symbol_tree appends to a parent
ParentResolves(syms, symbol) ==
    symbol.parent # NoId /\ symbol.parent \in DOMAIN node_map(syms)

RECURSIVE BuildLoop(_, _, _)
\* the loop of build_symbol_tree from the k-th Symbol on
BuildLoop(syms, k, acc) ==
    IF k > Len(syms) THEN acc
    ELSE LET symbol == syms[k]
             node == node_map(syms)[symbol.id]
         IN  IF ParentResolves(syms, symbol)
             THEN LET parent_node == node_map(syms)[symbol.parent]
                  IN  BuildLoop(syms, k + 1,
                          [acc EXCEPT !.children[parent_node] = Append(@, node)])
             ELSE BuildLoop(syms, k + 1,
                      [acc EXCEPT !.roots = Append(@, node)])

NoForest == [roots |-> <<>>, children |-> <<>>, symbol |-> <<>>]

build_symbol_tree(syms) ==
    BuildLoop(syms, 1, [roots |-> <<>>,
                        children |-> [k \in DOMAIN syms |-> <<>>],
                        symbol |-> [k \in DOMAIN syms |-> syms[k]]])

NoFlat == [raised |-> FALSE, result |-> <<>>]
RecursionError == [raised |-> TRUE, result |-> <<>>]

RECURSIVE flatten_tree_ChildrenFirst(_, _, _)
\* flatten_tree emitting a node after its children
flatten_tree_ChildrenFirst(f, nodes, depth) ==
    IF depth > Len(f.symbol) THEN RecursionError
    ELSE IF nodes = <<>> THEN NoFlat
    ELSE LET node == Head(nodes)
             below == flatten_tree_ChildrenFirst(f, f.children[node], depth + 1)
             rest == flatten_tree_ChildrenFirst(f, Tail(nodes), depth)
         IN  IF below.raised \/ rest.raised THEN RecursionError
             ELSE [raised |-> FALSE,
                   result |-> below.result
                              \o <<[node |-> node, symbol |-> f.symbol[node],
                                    depth |-> depth]>>
                              \o rest.result]

RECURSIVE flatten_tree(_, _, _)
\* flatten_tree(nodes, depth) over forest f: the (symbol, depth) pairs, each
\* with the node it was emitted for.  A walk deeper than the number of nodes
\* is inside a cycle and ends in Python's RecursionError.
flatten_tree(f, nodes, depth) ==
    IF depth > Len(f.symbol) THEN RecursionError
    ELSE IF nodes = <<>> THEN NoFlat
    ELSE LET node == Head(nodes)
             below == flatten_tree(f, f.children[node], depth + 1)
             rest == flatten_tree(f, Tail(nodes), depth)
         IN  IF below.raised \/ rest.raised THEN RecursionError
             ELSE [raised |-> FALSE,
                   result |-> <<[node |-> node, symbol |-> f.symbol[node],
                                 depth |-> depth]>>
                              \o below.result \o rest.result]

\* the file variables of a specification that reads no file
EncIdle == disk = <<>> /\ failure = None

\* the thread variables of a specification that runs no threads
ParIdle ==
    /\ calls = <<>>
    /\ threads = <<>>
    /\ lists = <<>>
    /\ registry = LANGUAGE_REGISTRY

\* the hierarchy variables of a specification that builds no forest
HierIdle == batch = <<>> /\ forest = NoForest /\ flat = NoFlat

----------------------------------------------------------------------------
(* storage/index_store.py.  What is under base_path: the index files by file
   name, the content directories by name, and the raw files by (directory,
   relative path).  json.dump and json.load keep dicts with string keys,
   lists, strings, integers and None as they are; the conversions between
   Symbol, dict and CodeIndex are written out. *)

NoFiles == [index |-> <<>>, dirs |-> {}, content |-> <<>>]
NoCall == [op |-> "none", owner |-> <<>>, name |-> <<>>, args |-> <<>>,
           value |-> <<>>]

\* the store variables of a specification that uses no store
StoreIdle ==
    /\ files = NoFiles
    /\ ret = NoCall
    /\ last_op = <<>>
    /\ linesep = <<"\n">>

JsonSuffix == <<".", "j", "s", "o", "n">>

\* _index_path: the name of the index file under base_path
index_path(owner, name) == owner \o <<"-">> \o name \o JsonSuffix

\* _content_dir: the name of the raw content directory under base_path
content_dir(owner, name) == owner \o <<"-">> \o name

\* symbol_to_dict leaving "parent" out of the dict (it loads as None)
symbol_to_dict_NoParent(symbol) == [symbol EXCEPT !.parent = NoId]

\* _symbol_to_dict
symbol_to_dict(symbol) ==
    [ id |-> symbol.id,
      file |-> symbol.file,
      name |-> symbol.name,
      qualified_name |-> symbol.qualified_name,
      kind |-> symbol.kind,
      language |-> symbol.language,
      signature |-> symbol.signature,
      docstring |-> symbol.docstring,
      summary |-> symbol.summary,
      decorators |-> symbol.decorators,
      keywords |-> symbol.keywords,
      parent |-> symbol.parent,
      line |-> symbol.line,
      end_line |-> symbol.end_line,
      byte_offset |-> symbol.byte_offset,
      byte_length |-> symbol.byte_length ]

\* _index_to_dict
index_to_dict(index) ==
    [ repo |-> index.repo,
      owner |-> index.owner,
      name |-> index.name,
      indexed_at |-> index.indexed_at,
      source_files |-> index.source_files,
      languages |-> index.languages,
      symbols |-> index.symbols ]

\* datetime.now().isoformat(): the instant of the save
IndexedAt == <<"t">>

RECURSIVE WriteText(_, _)
\* open(file_dest, "w", encoding="utf-8").write(content): the bytes that
\* reach the file; text mode writes os.linesep for every "\n"
WriteText(content, sep) ==
    IF content = <<>> THEN <<>>
    ELSE (IF Head(content) = "\n" THEN sep ELSE Encode(<<Head(content)>>))
         \o WriteText(Tail(content), sep)

\* f without the arguments in S
Without(f, S) == [x \in DOMAIN f \ S |-> f[x]]

\* save_index: the files afterwards and the CodeIndex returned
save_index(fs, owner, name, source_files, syms, raw_files, languages, sep) ==
    LET index == [ repo |-> owner \o <<"/">> \o name,
                   owner |-> owner,
                   name |-> name,
                   indexed_at |-> IndexedAt,
                   source_files |-> source_files,
                   languages |-> languages,
                   symbols |-> [i \in DOMAIN syms |-> symbol_to_dict(syms[i])] ]
        dir == content_dir(owner, name)
        written == [p \in {<<dir, file_path>> : file_path \in DOMAIN raw_files} |->
                       WriteText(raw_files[p[2]], sep)]
    IN  [ files |-> [ index |-> (index_path(owner, name) :> index_to_dict(index))
                                    @@ fs.index,
                      dirs |-> fs.dirs \cup {dir},
                      content |-> written @@ fs.content ],
          value |-> index ]

\* load_index: a sequence of zero (None) or one CodeIndex
load_index(fs, owner, name) ==
    IF index_path(owner, name) \notin DOMAIN fs.index THEN <<>>
    ELSE LET data == fs.index[index_path(owner, name)]
         IN  <<[ repo |-> data.repo,
                 owner |-> data.owner,
                 name |-> data.name,
                 indexed_at |-> data.indexed_at,
                 source_files |-> data.source_files,
                 languages |-> data.languages,
                 symbols |-> data.symbols ]>>

\* delete_index: the files afterwards and the flag returned
delete_index(fs, owner, name) ==
    LET dir == content_dir(owner, name)
    IN  [ files |-> [ index |-> Without(fs.index, {index_path(owner, name)}),
                      dirs |-> fs.dirs \ {dir},
                      content |-> Without(fs.content,
                                     {p \in DOMAIN fs.content : p[1] = dir}) ],
          value |-> \/ index_path(owner, name) \in DOMAIN fs.index
                    \/ dir \in fs.dirs ]

\* list_repos: one entry for every file base_path.glob("*.json") finds; the
\* entries are kept by file name, the order of the list being glob's
list_repos(fs) ==
    [index_file \in DOMAIN fs.index |->
        LET data == fs.index[index_file]
        IN  [ repo |-> data.repo,
              indexed_at |-> data.indexed_at,
              symbol_count |-> Len(data.symbols),
              file_count |-> Len(data.source_files),
              languages |-> data.languages ]]

\* CodeIndex.get_symbol: a sequence of zero (None) or one symbol dict, the
\* first of the list with this id
get_symbol(index, symbol_id) ==
    LET hits == {i \in DOMAIN index.symbols : index.symbols[i].id = symbol_id}
    IN  IF hits = {} THEN <<>>
        ELSE <<index.symbols[CHOOSE i \in hits : \A j \in hits : i <= j]>>

\* f.seek(offset); f.read(length) on a file of the given bytes
SeekRead(bytes, offset, length) ==
    LET start == IF offset < Len(bytes) THEN offset ELSE Len(bytes)
        end == IF offset + length < Len(bytes) THEN offset + length ELSE Len(bytes)
    IN  Slice(bytes, start, end)

\* get_symbol_content: a sequence of zero (None) or one text
get_symbol_content(fs, owner, name, symbol_id) ==
    LET index == load_index(fs, owner, name)
    IN  IF index = <<>> THEN <<>>
        ELSE LET symbol == get_symbol(index[1], symbol_id)
             IN  IF symbol = <<>> THEN <<>>
                 ELSE LET file_path == <<content_dir(owner, name), symbol[1].file>>
                      IN  IF file_path \notin DOMAIN fs.content THEN <<>>
                          ELSE <<Decode(SeekRead(fs.content[file_path],
                                                 symbol[1].byte_offset,
                                                 symbol[1].byte_length),
                                        "strict").text>>

----------------------------------------------------------------------------
(* summarizer/batch_summarize.py *)

\* the summary variables of a specification that summarizes nothing
SumIdle == to_summarize = <<>> /\ summarized = <<>>

\* text.split("\n")[0]
FirstLine(text) ==
    IF InList("\n", text) THEN Prefix(text, IndexOf(text, "\n")) ELSE text

SummaryLimit == 120

\* extract_summary_from_docstring without the final [:120]
extract_summary_from_docstring_NoLimit(docstring) ==
    IF docstring = <<>> THEN <<>>
    ELSE LET first_line == Strip(FirstLine(Strip(docstring)))
         IN  IF InList(".", first_line)
             THEN Prefix(first_line, IndexOf(first_line, ".") + 1)
             ELSE first_line

\* extract_summary_from_docstring
extract_summary_from_docstring(docstring) ==
    IF docstring = <<>> THEN <<>>
    ELSE LET first_line == Strip(FirstLine(Strip(docstring)))
             sentence == IF InList(".", first_line)
                         THEN Prefix(first_line, IndexOf(first_line, ".") + 1)
                         ELSE first_line
         IN  Prefix(sentence, SummaryLimit)

\* the characters of a kind, for f"{kind} {name}"
KindText(kind) ==
    CASE kind = "function" -> <<"f", "u", "n", "c", "t", "i", "o", "n">>
      [] kind = "method" -> <<"m", "e", "t", "h", "o", "d">>
      [] kind = "class" -> <<"c", "l", "a", "s", "s">>
      [] kind = "constant" -> <<"c", "o", "n", "s", "t", "a", "n", "t">>
      [] kind = "type" -> <<"t", "y", "p", "e">>

\* signature_fallback
signature_fallback(symbol) ==
    IF symbol.kind = "class"
    THEN <<"C", "l", "a", "s", "s", " ">> \o symbol.name
    ELSE IF symbol.kind = "constant"
    THEN <<"C", "o", "n", "s", "t", "a", "n", "t", " ">> \o symbol.name
    ELSE IF symbol.kind = "type"
    THEN <<"T", "y", "p", "e", " ", "d", "e", "f", "i", "n", "i", "t", "i",
           "o", "n", " ">> \o symbol.name
    ELSE IF symbol.signature # <<>>
    THEN Prefix(symbol.signature, SummaryLimit)
    ELSE KindText(symbol.kind) \o <<" ">> \o symbol.name

\* the body of the loop of summarize_symbols_simple
SummarizeSimple(sym) ==
    IF sym.summary # <<>> THEN sym
    ELSE LET tried == IF sym.docstring # <<>>
                      THEN [sym EXCEPT !.summary =
                               extract_summary_from_docstring(sym.docstring)]
                      ELSE sym
         IN  IF tried.summary = <<>>
             THEN [tried EXCEPT !.summary = signature_fallback(tried)]
             ELSE tried

\* summarize_symbols_simple: the list, its Symbols updated in place
summarize_symbols_simple(syms) ==
    [i \in DOMAIN syms |-> SummarizeSimple(syms[i])]

----------------------------------------------------------------------------
(* Specification: one parse_file call on any bounded tree *)

FileNames == {<<"s", "/", "m", ".", "p">>}

Init ==
    /\ language \in LanguageTags
    /\ filename \in FileNames
    /\ \E up \in Shapes(TreeSize(language)),
          loci \in ErrorLoci(TreeSize(language)),
          body \in [2..TreeSize(language) -> NodeForms(language)] :
          LET form == [n \in 1..TreeSize(language) |->
                          IF n = 1 THEN RootForm(GrammarOf(language)) ELSE body[n]]
          IN  /\ tree = MakeTree(up, form, loci)
              /\ source_bytes = SourceOf(form, loci)
    /\ pc = "ready"
    /\ symbols = <<>>
    /\ origin = <<>>
    /\ visited = <<>>
    /\ parser_calls = 0
    /\ ids = <<>>
    /\ HierIdle
    /\ ParIdle
    /\ EncIdle
    /\ StoreIdle
    /\ SumIdle

\* a call of parse_file(content, filename, language)
ParseFileCall ==
    /\ pc = "ready"
    /\ LET r == ParseFile(tree, source_bytes, filename, language)
       IN  /\ symbols' = r.walk.symbols
           /\ origin' = r.walk.origin
           /\ visited' = r.walk.visited
           /\ parser_calls' = parser_calls + r.parser_calls
    /\ pc' = "done"
    /\ UNCHANGED <<language, filename, source_bytes, tree, ids, hier_vars,
                 par_vars, enc_vars, store_vars, sum_vars>>

Next == ParseFileCall

Spec == Init /\ [][Next]_vars

----------------------------------------------------------------------------
(* Specification: make_symbol_id called on two (file_path, qualified_name)
   pairs *)

PathChars == {"a", "/", ".", "-"}
NameChars == {"f", "."}

\* the non-empty texts over a character set, up to MaxLen characters
Texts(chars) == UNION {[1..n -> chars] : n \in 1..MaxLen}

\* qualified names: names joined by ".", so no "." at either end
QualifiedNames ==
    {q \in Texts(NameChars) : q[1] # "." /\ q[Len(q)] # "."}

InitId ==
    /\ ids \in [1..2 -> [file_path : Texts(PathChars),
                         qualified_name : QualifiedNames,
                         id : {NoId}]]
    /\ language = "python"
    /\ filename = <<>>
    /\ source_bytes = <<>>
    /\ tree = <<>>
    /\ pc = "ids"
    /\ symbols = <<>>
    /\ origin = <<>>
    /\ visited = <<>>
    /\ parser_calls = 0
    /\ HierIdle
    /\ ParIdle
    /\ EncIdle
    /\ StoreIdle
    /\ SumIdle

\* the k-th call of make_symbol_id(file_path, qualified_name)
MakeSymbolIdCall(k) ==
    /\ pc = "ids"
    /\ ids[k].id = NoId
    /\ ids' = [ids EXCEPT ![k].id =
                  make_symbol_id(ids[k].file_path, ids[k].qualified_name)]
    /\ UNCHANGED <<parse_vars, pc, hier_vars, par_vars, enc_vars, store_vars,
                   sum_vars>>

NextId == \E k \in 1..2 : MakeSymbolIdCall(k)

SpecId == InitId /\ [][NextId]_vars

----------------------------------------------------------------------------
(* Specification: build_symbol_tree on any bounded Symbol list, then
   flatten_tree on the forest it returned *)

MaxBatch == 3
BatchIds == {<<"a">>, <<"b">>, <<"c">>}
\* a parent is no id, the id of a Symbol that may be in the batch, or the id
\* of a Symbol of another file
BatchParents == {NoId} \cup BatchIds \cup {<<"z">>}

\* the k-th Symbol of a batch: line tells two Symbols with one id apart
BatchSymbol(k, id, parent) == [id |-> id, parent |-> parent, line |-> k]

InitTree ==
    /\ \E n \in 0..MaxBatch :
          \E id \in [1..n -> BatchIds], parent \in [1..n -> BatchParents] :
              batch = [k \in 1..n |-> BatchSymbol(k, id[k], parent[k])]
    /\ forest = NoForest
    /\ flat = NoFlat
    /\ pc = "batch"
    /\ language = "python"
    /\ filename = <<>>
    /\ source_bytes = <<>>
    /\ tree = <<>>
    /\ symbols = <<>>
    /\ origin = <<>>
    /\ visited = <<>>
    /\ parser_calls = 0
    /\ ids = <<>>
    /\ ParIdle
    /\ EncIdle
    /\ StoreIdle
    /\ SumIdle

\* tree = build_symbol_tree(symbol_objects)
BuildSymbolTreeCall ==
    /\ pc = "batch"
    /\ forest' = build_symbol_tree(batch)
    /\ pc' = "built"
    /\ UNCHANGED <<parse_vars, ids, batch, flat, par_vars, enc_vars,
                   store_vars, sum_vars>>

\* flatten_tree(tree)
FlattenTreeCall ==
    /\ pc = "built"
    /\ flat' = flatten_tree(forest, forest.roots, 0)
    /\ pc' = "flat"
    /\ UNCHANGED <<parse_vars, ids, batch, forest, par_vars, enc_vars,
                   store_vars, sum_vars>>

NextTree == BuildSymbolTreeCall \/ FlattenTreeCall

SpecTree == InitTree /\ [][NextTree]_vars

----------------------------------------------------------------------------
(* Specification: two parse_file invocations on separate threads.  A thread
   runs _walk_tree one node at a time; its recursion is the list of pending
   frames (node, parent_symbol), the frame of the next node first.  Another
   thread may run between any two steps. *)

MaxParNodes == 3
Threads == {1, 2}
\* number of nodes of the tree thread t parses
ParSize(t) == IF t = 1 THEN MaxParNodes ELSE MaxParNodes - 1

\* the arguments of an invocation on python source whose tree has N nodes,
\* with the tree parser.parse returns for that source
ParInputs(N) ==
    {LET form == [n \in 1..N |-> IF n = 1 THEN RootForm("python") ELSE body[n]]
     IN  [language |-> "python",
          filename |-> fname,
          source_bytes |-> SourceOf(form, {}),
          tree |-> MakeTree(up, form, {})] :
        up \in Shapes(N), body \in [2..N -> NodeForms("python")],
        fname \in FileNames}

InitPar ==
    /\ calls \in [Threads -> ParInputs(MaxParNodes) \cup ParInputs(MaxParNodes - 1)]
    /\ \A t \in Threads : Len(calls[t].tree) = ParSize(t)
    /\ threads = [t \in Threads |->
                     [pc |-> "ready", tree |-> <<>>, stack |-> <<>>,
                      result |-> <<>>, overlapped |-> FALSE]]
    /\ lists = [t \in Threads |-> EmptyWalk]
    /\ registry = LANGUAGE_REGISTRY
    /\ pc = "threads"
    /\ language = "python"
    /\ filename = <<>>
    /\ source_bytes = <<>>
    /\ tree = <<>>
    /\ symbols = <<>>
    /\ origin = <<>>
    /\ visited = <<>>
    /\ parser_calls = 0
    /\ ids = <<>>
    /\ HierIdle
    /\ EncIdle
    /\ StoreIdle
    /\ SumIdle

\* ListRef with one module-level symbols list that every invocation appends to
ListRef_ModuleLevel(t) == 1

\* the list `symbols = []` of parse_file: a new one for every invocation
ListRef(t) == t

\* another thread is inside its walk
Overlap(t) == \E u \in Threads \ {t} : threads[u].pc = "walk"

\* parse_file up to its call of _walk_tree(tree.root_node, ..., symbols, None)
ParStart(t) ==
    /\ pc = "threads"
    /\ threads[t].pc = "ready"
    /\ IF calls[t].language \notin DOMAIN registry
       THEN /\ threads' = [threads EXCEPT ![t].pc = "done", ![t].result = <<>>]
            /\ UNCHANGED lists
       ELSE /\ threads' = [threads EXCEPT
                              ![t].pc = "walk",
                              ![t].tree = calls[t].tree,
                              ![t].stack = <<[node |-> 1, parent_symbol |-> <<>>]>>]
            /\ lists' = [lists EXCEPT ![ListRef(t)] = EmptyWalk]
    /\ UNCHANGED <<parse_vars, pc, ids, hier_vars, calls, registry, enc_vars,
                   store_vars, sum_vars>>

\* one call of _walk_tree: the node's symbols are appended, and the calls for
\* its children are next
ParWalkStep(t) ==
    /\ pc = "threads"
    /\ threads[t].pc = "walk"
    /\ threads[t].stack # <<>>
    /\ LET frame == Head(threads[t].stack)
           c == calls[t]
           v == VisitNode(threads[t].tree, frame.node, registry[c.language],
                          c.source_bytes, c.filename, c.language,
                          lists[ListRef(t)], frame.parent_symbol)
           kids == WalkedChildren(threads[t].tree, frame.node)
           pushed == [i \in 1..Len(kids) |->
                         [node |-> kids[i], parent_symbol |-> v.parent_symbol]]
       IN  /\ lists' = [lists EXCEPT ![ListRef(t)] = v.acc]
           /\ threads' = [threads EXCEPT
                             ![t].stack = pushed \o Tail(@),
                             ![t].overlapped = @ \/ Overlap(t)]
    /\ UNCHANGED <<parse_vars, pc, ids, hier_vars, calls, registry, enc_vars,
                   store_vars, sum_vars>>

\* return symbols
ParReturn(t) ==
    /\ pc = "threads"
    /\ threads[t].pc = "walk"
    /\ threads[t].stack = <<>>
    /\ threads' = [threads EXCEPT ![t].pc = "done",
                                  ![t].result = lists[ListRef(t)].symbols]
    /\ UNCHANGED <<parse_vars, pc, ids, hier_vars, calls, lists, registry,
                   enc_vars, store_vars, sum_vars>>

NextPar == \E t \in Threads : ParStart(t) \/ ParWalkStep(t) \/ ParReturn(t)

SpecPar == InitPar /\ [][NextPar]_vars

----------------------------------------------------------------------------
(* Specification: index_folder reads one javascript file whose bytes may not
   be valid UTF-8 and hands the content to parse_file *)

\* the bytes of an identifier on disk: ASCII letters and the byte 0xFF, which
\* is valid nowhere in UTF-8 (a file saved in another encoding)
RawNames == Texts({"f", "A", "xFF"})

\* what a node of the file can be
RawForms ==
    {x \in NodeForms("javascript") : x.name = <<>>}
    \cup
    {[type |-> t, name |-> nm, name_type |-> "identifier"] :
        t \in {u \in TreeTypes("javascript") : GrammarSlot(u) # None},
        nm \in RawNames}

InitEnc ==
    /\ \E up \in Shapes(MaxNodes - 1),
          body \in [2..(MaxNodes - 1) -> RawForms] :
          LET form == [n \in 1..(MaxNodes - 1) |->
                          IF n = 1 THEN RootForm("javascript") ELSE body[n]]
          IN  disk = [bytes |-> SourceOf(form, {}), up |-> up, form |-> form]
    /\ failure = None
    /\ language = "javascript"
    /\ filename \in FileNames
    /\ source_bytes = <<>>
    /\ tree = <<>>
    /\ pc = "file"
    /\ symbols = <<>>
    /\ origin = <<>>
    /\ visited = <<>>
    /\ parser_calls = 0
    /\ ids = <<>>
    /\ HierIdle
    /\ ParIdle
    /\ StoreIdle
    /\ SumIdle

\* file_path.read_text(encoding="utf-8", errors="replace")
ReadText(bytes) == Decode(bytes, "replace").text

\* the node forms of the file after its bytes went through ReadText and
\* content.encode("utf-8")
FormsOf(content_form) ==
    [n \in DOMAIN content_form |->
        [content_form[n] EXCEPT !.name = Encode(ReadText(@))]]

\* the body of index_folder's loop for the file: read_text raises nothing on
\* undecodable bytes and parse_file raises nothing, so no except branch runs
IndexFolderFile ==
    /\ pc = "file"
    /\ LET content == ReadText(disk.bytes)
           src == Encode(content)
           t == MakeTree(disk.up, FormsOf(disk.form), {})
           r == ParseFile(t, src, filename, language)
       IN  /\ source_bytes' = src
           /\ tree' = t
           /\ symbols' = r.walk.symbols
           /\ origin' = r.walk.origin
           /\ visited' = r.walk.visited
           /\ parser_calls' = r.parser_calls
    /\ failure' = None
    /\ pc' = "indexed"
    /\ UNCHANGED <<language, filename, ids, hier_vars, par_vars, disk,
                   store_vars, sum_vars>>

NextEnc == IndexFolderFile

SpecEnc == InitEnc /\ [][NextEnc]_vars

----------------------------------------------------------------------------
(* Specification: any sequence of save_index, load_index, delete_index and
   list_repos calls on one IndexStore *)

MaxSymbols == 2

\* (owner, name) pairs as GitHub allows them: letters and hyphens
StorePairs ==
    { <<<<"a">>, <<"c">>>>,
      <<<<"a">>, <<"b", "-", "c">>>>,
      <<<<"a", "-", "b">>, <<"c">>>> }

FilePath == <<"m">>
FileContent == <<"d", "\n", "d">>

\* a Symbol of the file with the given id, parent and decorators
StoreSymbol(id, parent, decorators) ==
    [ id |-> id,
      file |-> FilePath,
      name |-> <<"f">>,
      qualified_name |-> <<"f">>,
      kind |-> "function",
      language |-> "python",
      signature |-> <<"d">>,
      docstring |-> <<>>,
      summary |-> <<>>,
      decorators |-> decorators,
      keywords |-> <<>>,
      parent |-> parent,
      line |-> 1,
      end_line |-> 1,
      byte_offset |-> 0,
      byte_length |-> 1 ]

StoreSymbols ==
    { StoreSymbol(<<"x">>, NoId, <<>>),
      StoreSymbol(<<"y">>, <<"x">>, <<<<"@">>>>) }

\* the arguments of save_index besides owner and name
StoreArgs ==
    {[ source_files |-> IF syms = <<>> THEN <<>> ELSE <<FilePath>>,
       symbols |-> syms,
       raw_files |-> (FilePath :> FileContent),
       languages |-> ("python" :> 1) ] :
        syms \in UNION {[1..n -> StoreSymbols] : n \in 0..MaxSymbols}}

InitStore ==
    /\ files = NoFiles
    /\ ret = NoCall
    /\ last_op = [p \in StorePairs |-> NoCall]
    /\ linesep \in {<<"\n">>, <<"\r", "\n">>}
    /\ pc = "store"
    /\ language = "python"
    /\ filename = <<>>
    /\ source_bytes = <<>>
    /\ tree = <<>>
    /\ symbols = <<>>
    /\ origin = <<>>
    /\ visited = <<>>
    /\ parser_calls = 0
    /\ ids = <<>>
    /\ HierIdle
    /\ ParIdle
    /\ EncIdle
    /\ SumIdle

StoreFrame == UNCHANGED <<parse_vars, pc, ids, hier_vars, par_vars, enc_vars,
                          linesep, sum_vars>>

\* store.save_index(owner, name, source_files, symbols, raw_files, languages)
SaveIndexCall(pairs, args) ==
    /\ pc = "store"
    /\ \E p \in pairs, a \in args :
          LET r == save_index(files, p[1], p[2], a.source_files, a.symbols,
                              a.raw_files, a.languages, linesep)
          IN  /\ files' = r.files
              /\ ret' = [op |-> "save_index", owner |-> p[1], name |-> p[2],
                         args |-> <<a>>, value |-> <<r.value>>]
              /\ last_op' = [last_op EXCEPT ![p] = ret']
    /\ StoreFrame

\* store.load_index(owner, name); args keeps the arguments of the save_index
\* call for the same pair when that was the call just before
LoadIndexCall(pairs) ==
    /\ pc = "store"
    /\ \E p \in pairs :
          ret' = [op |-> "load_index", owner |-> p[1], name |-> p[2],
                  args |-> IF /\ ret.op = "save_index"
                              /\ ret.owner = p[1] /\ ret.name = p[2]
                           THEN ret.args ELSE <<>>,
                  value |-> load_index(files, p[1], p[2])]
    /\ UNCHANGED <<files, last_op>>
    /\ StoreFrame

\* store.delete_index(owner, name)
DeleteIndexCall(pairs) ==
    /\ pc = "store"
    /\ \E p \in pairs :
          LET r == delete_index(files, p[1], p[2])
          IN  /\ files' = r.files
              /\ ret' = [op |-> "delete_index", owner |-> p[1], name |-> p[2],
                         args |-> <<>>, value |-> <<r.value>>]
              /\ last_op' = [last_op EXCEPT ![p] = ret']
    /\ StoreFrame

\* store.list_repos()
ListReposCall ==
    /\ pc = "store"
    /\ ret' = [op |-> "list_repos", owner |-> <<>>, name |-> <<>>,
               args |-> <<>>, value |-> list_repos(files)]
    /\ UNCHANGED <<files, last_op>>
    /\ StoreFrame

NextStore ==
    \/ SaveIndexCall(StorePairs, StoreArgs)
    \/ LoadIndexCall(StorePairs)
    \/ DeleteIndexCall(StorePairs)
    \/ ListReposCall

SpecStore == InitStore /\ [][NextStore]_vars

----------------------------------------------------------------------------
(* Specification: save_index of one file with Symbols that carry byte ranges
   of its content, delete_index, and get_symbol_content *)

ContentPairs == {<<<<"a">>, <<"c">>>>}
Contents == {<<"d", "e">>, <<"d", "\n", "e">>}
\* the file save_index stores, and a file no raw content is passed for
ContentFiles == {FilePath, <<"n">>}
SymbolIds == {<<"x">>, <<"y">>}

\* the Symbols of a file with the given content: every non-empty byte range
\* of content.encode("utf-8"), as parse_file computes the ranges
ContentSymbols(content) ==
    {[StoreSymbol(id, NoId, <<>>) EXCEPT
         !.file = file, !.byte_offset = offset, !.byte_length = length] :
        id \in SymbolIds, file \in ContentFiles,
        offset \in 0..(Len(Encode(content)) - 1),
        length \in 1..Len(Encode(content))}

ContentArgs ==
    UNION {
        {[ source_files |-> <<FilePath>>,
           symbols |-> syms,
           raw_files |-> (FilePath :> content),
           languages |-> ("python" :> 1) ] :
            syms \in {y \in UNION {[1..n -> ContentSymbols(content)] :
                                      n \in 0..MaxSymbols} :
                         \A i \in DOMAIN y :
                             y[i].byte_offset + y[i].byte_length
                                 <= Len(Encode(content))}} :
        content \in Contents}

InitContent ==
    /\ files = NoFiles
    /\ ret = NoCall
    /\ last_op = [p \in ContentPairs |-> NoCall]
    /\ linesep \in {<<"\n">>, <<"\r", "\n">>}
    /\ pc = "store"
    /\ language = "python"
    /\ filename = <<>>
    /\ source_bytes = <<>>
    /\ tree = <<>>
    /\ symbols = <<>>
    /\ origin = <<>>
    /\ visited = <<>>
    /\ parser_calls = 0
    /\ ids = <<>>
    /\ HierIdle
    /\ ParIdle
    /\ EncIdle
    /\ SumIdle

\* store.get_symbol_content(owner, name, symbol_id)
GetSymbolContentCall(pairs, symbol_ids) ==
    /\ pc = "store"
    /\ \E p \in pairs, symbol_id \in symbol_ids :
          ret' = [op |-> "get_symbol_content", owner |-> p[1], name |-> p[2],
                  args |-> <<symbol_id>>,
                  value |-> get_symbol_content(files, p[1], p[2], symbol_id)]
    /\ UNCHANGED <<files, last_op>>
    /\ StoreFrame

NextContent ==
    \/ SaveIndexCall(ContentPairs, ContentArgs)
    \/ DeleteIndexCall(ContentPairs)
    \/ GetSymbolContentCall(ContentPairs, SymbolIds \cup {<<"z">>})

SpecContent == InitContent /\ [][NextContent]_vars

----------------------------------------------------------------------------
(* Specification: summarize_symbols_simple on a list of one or two Symbols *)

\* n times the letter "a"
Pad(n) == [i \in 1..n |-> "a"]

\* first lines of docstrings: empty, short, with periods, and around the
\* limit of SummaryLimit characters
DocLines ==
    { <<>>, <<"a">>, <<"a", ".">>, <<"a", ".", "b", ".">>, <<".">>,
      <<"a", " ">>,
      Pad(SummaryLimit), Pad(SummaryLimit + 1),
      Pad(SummaryLimit - 1) \o <<".">>, Pad(SummaryLimit) \o <<".">>,
      Pad(SummaryLimit + 1) \o <<".">> }

\* docstrings: white space, a first line, and what follows it
Docstrings ==
    {lead \o line \o rest :
        lead \in {<<>>, <<" ">>, <<"\n">>},
        line \in DocLines,
        rest \in {<<>>, <<"\n", "b", ".">>, <<" ", "\n">>}}

Kinds == {"function", "class", "method", "constant", "type"}
Signatures == {<<>>, <<"d">>, Pad(SummaryLimit + 1)}
Summaries == {<<>>, <<"s">>}

\* the Symbols handed to the summarizer
SumSymbols ==
    {[StoreSymbol(<<"x">>, NoId, <<>>) EXCEPT
         !.kind = kind, !.signature = signature, !.docstring = docstring,
         !.summary = summary] :
        kind \in Kinds, signature \in Signatures, docstring \in Docstrings,
        summary \in Summaries}

\* the second Symbol of a list of two
SecondSymbols ==
    {x \in SumSymbols :
        /\ x.kind \in {"function", "class"}
        /\ x.signature = <<"d">>
        /\ x.docstring \in {<<>>, <<"a", ".">>}}

InitSum ==
    /\ to_summarize \in {<<x>> : x \in SumSymbols}
                        \cup {<<x, y>> : x \in SumSymbols, y \in SecondSymbols}
    /\ summarized = <<>>
    /\ pc = "summarize"
    /\ language = "python"
    /\ filename = <<>>
    /\ source_bytes = <<>>
    /\ tree = <<>>
    /\ symbols = <<>>
    /\ origin = <<>>
    /\ visited = <<>>
    /\ parser_calls = 0
    /\ ids = <<>>
    /\ HierIdle
    /\ ParIdle
    /\ EncIdle
    /\ StoreIdle

\* summarize_symbols_simple(symbols)
SummarizeSymbolsSimpleCall ==
    /\ pc = "summarize"
    /\ summarized' = summarize_symbols_simple(to_summarize)
    /\ pc' = "summarized"
    /\ UNCHANGED <<parse_vars, ids, hier_vars, par_vars, enc_vars, store_vars,
                   to_summarize>>

NextSum == SummarizeSymbolsSimpleCall

SpecSum == InitSum /\ [][NextSum]_vars

----------------------------------------------------------------------------
(* Specification: one parse_file call on a file that holds one declaration,
   the named siblings before it, and its body.  The characters of the file
   are written out, since the signature, the docstring and the decorators are
   cut from them.  The nodes inside the body are of types no LanguageSpec
   lists; they are folded into the declaration's record as the view
   child_by_field_name("body") gives of them. *)

\* number of named siblings before the declaration
MaxPre == 2
\* number of statements of a python body
MaxStmts == 2

\* the named siblings a grammar allows before a declaration: comments, the
\* decorators the grammar makes siblings of the declaration, other statements
PreForms(lang) ==
    CASE lang = "python" ->
          { [type |-> "comment", text |-> <<"#", " ", "c">>],
            [type |-> "decorator", text |-> <<"@", "d">>],
            [type |-> "expression_statement", text |-> <<"x">>] }
      [] lang = "javascript" ->
          { [type |-> "comment", text |-> <<"/", "/", " ", "c">>],
            [type |-> "comment", text |-> <<"/", "*", "*", "\n", " ", "*", " ", "d", "\n", " ", "*", "/">>],
            [type |-> "expression_statement", text |-> <<"x", ";">>] }
      [] lang = "typescript" ->
          { [type |-> "comment", text |-> <<"/", "/", " ", "c">>],
            [type |-> "decorator", text |-> <<"@", "d">>],
            [type |-> "expression_statement", text |-> <<"x", ";">>] }
      [] lang = "go" ->
          { [type |-> "comment", text |-> <<"/", "/", " ", "c">>],
            [type |-> "comment", text |-> <<"/", "*", " ", "d", " ", "*", "/">>],
            [type |-> "var_declaration", text |-> <<"v", "a", "r", " ", "x", " ", "i", "n", "t">>] }
      [] lang = "rust" ->
          { [type |-> "line_comment", text |-> <<"/", "/", "/", " ", "d">>],
            [type |-> "line_comment", text |-> <<"/", "/", "!", " ", "e">>],
            [type |-> "block_comment", text |-> <<"/", "*", " ", "b", " ", "*", "/">>],
            [type |-> "attribute_item", text |-> <<"#", "[", "t", "]">>],
            [type |-> "use_declaration", text |-> <<"u", "s", "e", " ", "x", ";">>] }
      [] lang = "java" ->
          { [type |-> "line_comment", text |-> <<"/", "/", " ", "c">>],
            [type |-> "block_comment", text |-> <<"/", "*", "*", " ", "d", " ", "*", "/">>],
            [type |-> "import_declaration", text |-> <<"i", "m", "p", "o", "r", "t", " ", "x", ";">>] }

\* the declarations: type, text from the start of the node to the body (or
\* to the end of the node when the grammar gives it no body), and the place
\* of the identifier in that text
DeclForms(lang) ==
    CASE lang = "python" ->
          { [type |-> "function_definition", text |-> <<"d", "e", "f", " ", "f", "(", ")", ":">>,
              name_at |-> 4, name_len |-> 1, has_body |-> TRUE],
            [type |-> "function_definition", text |-> <<"d", "e", "f", " ", "f", "(", ")", " ", "-", ">", " ", "A", " ", ":">>,
              name_at |-> 4, name_len |-> 1, has_body |-> TRUE],
            [type |-> "class_definition", text |-> <<"c", "l", "a", "s", "s", " ", "A", ":">>,
              name_at |-> 6, name_len |-> 1, has_body |-> TRUE] }
      [] lang = "javascript" ->
          { [type |-> "function_declaration", text |-> <<"f", "u", "n", "c", "t", "i", "o", "n", " ", "f", "(", ")">>,
              name_at |-> 9, name_len |-> 1, has_body |-> TRUE],
            [type |-> "class_declaration", text |-> <<"c", "l", "a", "s", "s", " ", "A">>,
              name_at |-> 6, name_len |-> 1, has_body |-> TRUE] }
      [] lang = "typescript" ->
          { [type |-> "class_declaration", text |-> <<"c", "l", "a", "s", "s", " ", "A">>,
              name_at |-> 6, name_len |-> 1, has_body |-> TRUE],
            [type |-> "type_alias_declaration", text |-> <<"t", "y", "p", "e", " ", "A", " ", "=", " ", "{", "a", ":", " ", "1", "}">>,
              name_at |-> 5, name_len |-> 1, has_body |-> FALSE] }
      [] lang = "go" ->
          { [type |-> "function_declaration", text |-> <<"f", "u", "n", "c", " ", "f", "(", ")">>,
              name_at |-> 5, name_len |-> 1, has_body |-> TRUE],
            [type |-> "type_declaration", text |-> <<"t", "y", "p", "e", " ", "A", " ", "s", "t", "r", "u", "c", "t", "{", "}">>,
              name_at |-> 5, name_len |-> 1, has_body |-> FALSE] }
      [] lang = "rust" ->
          { [type |-> "function_item", text |-> <<"f", "n", " ", "f", "(", ")">>,
              name_at |-> 3, name_len |-> 1, has_body |-> TRUE],
            [type |-> "struct_item", text |-> <<"s", "t", "r", "u", "c", "t", " ", "A", ";">>,
              name_at |-> 7, name_len |-> 1, has_body |-> FALSE] }
      [] lang = "java" ->
          { [type |-> "method_declaration", text |-> <<"v", "o", "i", "d", " ", "f", "(", ")">>,
              name_at |-> 5, name_len |-> 1, has_body |-> TRUE],
            [type |-> "method_declaration", text |-> <<"v", "o", "i", "d", " ", "f", "(", ")", ";">>,
              name_at |-> 5, name_len |-> 1, has_body |-> FALSE] }

\* the statements of a python body: an expression_statement with the type
\* and text of its only child, or a statement without children
StmtForms ==
    { [type |-> "expression_statement", first |-> "string", text |-> <<"\"", "d", ".", "\"">>],
      [type |-> "expression_statement", first |-> "string", text |-> <<"\"", "\"", "\"", "e", "\"", "\"", "\"">>],
      [type |-> "expression_statement", first |-> "string", text |-> <<"'", "g", "'">>],
      [type |-> "expression_statement", first |-> "identifier", text |-> <<"x">>],
      [type |-> "pass_statement", first |-> "None", text |-> <<"p", "a", "s", "s">>] }

\* the lists over S of length lo to hi
ListsOf(S, lo, hi) == UNION {[1..k -> S] : k \in lo..hi}

\* the number of line breaks in a text
LineBreaks(text) == Cardinality({k \in DOMAIN text : text[k] = "\n"})

\* the text of a file: every sibling on lines of its own, then the
\* declaration, then its body: the statements of a python block one per
\* line, an empty pair of braces for the other languages
FieldsSource(lang, pre, decl, stmts) ==
    Concat([k \in DOMAIN pre |-> pre[k].text \o <<"\n">>], Len(pre))
        \o decl.text
        \o (IF ~decl.has_body THEN <<>>
            ELSE IF lang = "python"
            THEN <<"\n", " ">>
                 \o Join(<<"\n", " ">>, [k \in DOMAIN stmts |-> stmts[k].text])
            ELSE <<" ", "{", "}">>)

\* the tree of such a file: node 1 is the root, the siblings follow, the
\* declaration is the last node
FieldsTree(lang, pre, decl, stmts) ==
    LET src == FieldsSource(lang, pre, decl, stmts)
        N == Len(pre) + 2
        pre_start(k) == Len(Concat([j \in DOMAIN pre |-> pre[j].text \o <<"\n">>],
                                   k - 1))
        start(n) == IF n = 1 THEN 0
                    ELSE IF n = N THEN pre_start(Len(pre) + 1)
                    ELSE pre_start(n - 1)
        end(n) == IF n = 1 \/ n = N THEN Len(src)
                  ELSE start(n) + Len(pre[n - 1].text)
        type(n) == IF n = 1 THEN RootType(lang)
                   ELSE IF n = N THEN decl.type
                   ELSE pre[n - 1].type
        body_start == start(N) + Len(decl.text) + (IF lang = "python" THEN 2 ELSE 1)
        stmt_start(k) == body_start
                            + Len(Concat([j \in DOMAIN stmts |->
                                             stmts[j].text \o <<"\n", " ">>], k - 1))
        stmt(k) == [ type |-> stmts[k].type,
                     start_byte |-> stmt_start(k),
                     end_byte |-> stmt_start(k) + Len(stmts[k].text),
                     expression |-> <<>>,
                     children |-> IF stmts[k].first = None THEN <<>>
                                  ELSE <<[ type |-> stmts[k].first,
                                           start_byte |-> stmt_start(k),
                                           end_byte |-> stmt_start(k)
                                                            + Len(stmts[k].text) ]>> ]
        body == IF ~decl.has_body THEN <<>>
                ELSE <<[ start_byte |-> body_start,
                         end_byte |-> Len(src),
                         children |-> IF lang = "python"
                                      THEN [k \in DOMAIN stmts |-> stmt(k)]
                                      ELSE <<>> ]>>
        before(n) == IF n = 1 THEN <<>> ELSE Descending(2..(n - 1))
    IN  [n \in 1..N |->
            [ type |-> type(n),
              up |-> IF n = 1 THEN 0 ELSE 1,
              has_error |-> FALSE,
              start_byte |-> start(n),
              end_byte |-> end(n),
              start_row |-> LineBreaks(Prefix(src, start(n))),
              end_row |-> LineBreaks(Prefix(src, end(n))),
              name_slot |-> IF n = N THEN GrammarSlot(decl.type) ELSE None,
              name_type |-> IF n = N THEN "identifier" ELSE None,
              name_start |-> IF n = N THEN start(n) + decl.name_at ELSE start(n),
              name_end |-> IF n = N THEN start(n) + decl.name_at + decl.name_len
                           ELSE start(n),
              body |-> IF n = N THEN body ELSE <<>>,
              prev |-> [k \in DOMAIN before(n) |->
                          [ type |-> type(before(n)[k]),
                            start_byte |-> start(before(n)[k]),
                            end_byte |-> end(before(n)[k]) ]] ]]

InitFields ==
    /\ language \in DOMAIN LANGUAGE_REGISTRY
    /\ filename = <<"m">>
    /\ \E pre \in ListsOf(PreForms(language), 0, MaxPre),
          decl \in DeclForms(language),
          stmts \in IF language = "python"
                    THEN ListsOf(StmtForms, 1, MaxStmts) ELSE {<<>>} :
          /\ tree = FieldsTree(language, pre, decl, stmts)
          /\ source_bytes = Encode(FieldsSource(language, pre, decl, stmts))
    /\ pc = "ready"
    /\ symbols = <<>>
    /\ origin = <<>>
    /\ visited = <<>>
    /\ parser_calls = 0
    /\ ids = <<>>
    /\ HierIdle
    /\ ParIdle
    /\ EncIdle
    /\ StoreIdle
    /\ SumIdle

SpecFields == InitFields /\ [][Next]_vars

----------------------------------------------------------------------------
(* Specification: one parse_file call on a python module of one or two
   top-level assignments, module > expression_statement > assignment, with
   right-hand sides that bring the assignment text to around
   ConstantSignatureLimit characters *)

\* number of assignments of the module
MaxAssignments == 2

\* what stands on the left of an assignment: an identifier in the spellings
\* the constant rule tells apart, or an attribute
LeftForms ==
    {[text |-> nm, type |-> "identifier"] :
        nm \in { <<"A">>, <<"a">>, <<"A", "b">>, <<"A", "_", "b">>,
                 <<"a", "_", "B">>, <<"_">>, <<"_", "A">>, <<"A", "1">> }}
    \cup {[text |-> <<"A", ".", "B">>, type |-> "attribute"]}

\* the lengths of the right-hand sides
RightLengths ==
    {1, ConstantSignatureLimit - 5, ConstantSignatureLimit - 4,
     ConstantSignatureLimit - 3}

AssignmentForms ==
    {[left |-> l, right |-> Pad(k), has_error |-> e] :
        l \in LeftForms, k \in RightLengths, e \in BOOLEAN}

\* the text of an assignment
AssignmentText(a) == a.left.text \o <<" ", "=", " ">> \o a.right

ConstSource(stmts) ==
    Join(<<"\n">>, [k \in DOMAIN stmts |-> AssignmentText(stmts[k])])

\* node 1 is the module; statement k is the expression_statement 2k and its
\* only child, the assignment 2k + 1, which spans the same bytes
ConstTree(stmts) ==
    LET start(k) == Len(Concat([j \in DOMAIN stmts |->
                                   AssignmentText(stmts[j]) \o <<"\n">>], k - 1))
        stmt(n) == n \div 2
        before(n) == IF n = 1 \/ n % 2 = 1 THEN <<>>
                     ELSE Descending({m \in 2..(n - 1) : m % 2 = 0})
    IN  [n \in 1..(2 * Len(stmts) + 1) |->
            IF n = 1
            THEN [ type |-> RootType("python"), up |-> 0,
                   has_error |-> \E k \in DOMAIN stmts : stmts[k].has_error,
                   start_byte |-> 0, end_byte |-> Len(ConstSource(stmts)),
                   start_row |-> 0, end_row |-> Len(stmts) - 1,
                   name_slot |-> None, name_type |-> None,
                   name_start |-> 0, name_end |-> 0,
                   body |-> <<>>, prev |-> <<>> ]
            ELSE [ type |-> IF n % 2 = 0 THEN "expression_statement"
                            ELSE "assignment",
                   up |-> IF n % 2 = 0 THEN 1 ELSE n - 1,
                   has_error |-> stmts[stmt(n)].has_error,
                   start_byte |-> start(stmt(n)),
                   end_byte |-> start(stmt(n)) + Len(AssignmentText(stmts[stmt(n)])),
                   start_row |-> stmt(n) - 1, end_row |-> stmt(n) - 1,
                   name_slot |-> IF n % 2 = 0 THEN None ELSE "left",
                   name_type |-> IF n % 2 = 0 THEN None
                                 ELSE stmts[stmt(n)].left.type,
                   name_start |-> start(stmt(n)),
                   name_end |-> IF n % 2 = 0 THEN start(stmt(n))
                                ELSE start(stmt(n)) + Len(stmts[stmt(n)].left.text),
                   body |-> <<>>,
                   prev |-> [k \in DOMAIN before(n) |->
                               [ type |-> "expression_statement",
                                 start_byte |-> start(stmt(before(n)[k])),
                                 end_byte |-> start(stmt(before(n)[k]))
                                    + Len(AssignmentText(stmts[stmt(before(n)[k])])) ]] ]]

InitConst ==
    /\ language = "python"
    /\ filename = <<"m">>
    /\ \E stmts \in ListsOf(AssignmentForms, 1, MaxAssignments) :
          /\ Len(stmts) > 1 =>
                /\ Len(stmts[1].right) = 1
                /\ \A k \in DOMAIN stmts : ~stmts[k].has_error
          /\ tree = ConstTree(stmts)
          /\ source_bytes = Encode(ConstSource(stmts))
    /\ pc = "ready"
    /\ symbols = <<>>
    /\ origin = <<>>
    /\ visited = <<>>
    /\ parser_calls = 0
    /\ ids = <<>>
    /\ HierIdle
    /\ ParIdle
    /\ EncIdle
    /\ StoreIdle
    /\ SumIdle

SpecConst == InitConst /\ [][Next]_vars

----------------------------------------------------------------------------
(* Specification: parse_file on any bounded python tree, then
   build_symbol_tree on the list it returns and flatten_tree on the forest,
   as the outline of a file is made *)

InitOutline ==
    /\ language = "python"
    /\ filename \in FileNames
    /\ \E up \in Shapes(MaxNodes),
          loci \in ErrorLoci(MaxNodes),
          body \in [2..MaxNodes -> NodeForms("python")] :
          LET form == [n \in 1..MaxNodes |->
                          IF n = 1 THEN RootForm("python") ELSE body[n]]
          IN  /\ tree = MakeTree(up, form, loci)
              /\ source_bytes = SourceOf(form, loci)
    /\ pc = "ready"
    /\ symbols = <<>>
    /\ origin = <<>>
    /\ visited = <<>>
    /\ parser_calls = 0
    /\ ids = <<>>
    /\ HierIdle
    /\ ParIdle
    /\ EncIdle
    /\ StoreIdle
    /\ SumIdle

\* the list parse_file returned is handed to build_symbol_tree
OutlineOfParsed ==
    /\ pc = "done"
    /\ batch' = symbols
    /\ pc' = "batch"
    /\ UNCHANGED <<parse_vars, ids, forest, flat, par_vars, enc_vars,
                   store_vars, sum_vars>>

NextOutline ==
    \/ ParseFileCall
    \/ OutlineOfParsed
    \/ BuildSymbolTreeCall
    \/ FlattenTreeCall

SpecOutline == InitOutline /\ [][NextOutline]_vars

----------------------------------------------------------------------------
(* Vocabulary of the properties *)

Parsed == pc = "done" /\ language \in DOMAIN LANGUAGE_REGISTRY
ActiveSpec == LANGUAGE_REGISTRY[language]
Up == [n \in DOMAIN tree |-> tree[n].up]
\* the ancestors of node n in the tree, n excluded
Ancestors(n) == Chain(Up, n) \ {n}
Idx == 1..Len(symbols)
\* the positions of the declaration Symbols node n produced
DeclsOf(n) == {i \in Idx : origin[i] = n /\ symbols[i].kind # "constant"}
IsSymbolNode(n) == tree[n].type \in DOMAIN ActiveSpec.symbol_node_types
\* a node for which _extract_symbol returns a Symbol
Extractable(n) ==
    /\ IsSymbolNode(n)
    /\ ~tree[n].has_error
    /\ ExtractName(tree[n], ActiveSpec, source_bytes) # <<>>

RECURSIVE ContextOf(_)
\* the id of the enclosing-symbol context _walk_tree receives for node n
ContextOf(n) ==
    IF tree[n].up = 0 THEN NoId
    ELSE IF DeclsOf(tree[n].up) # {}
         THEN symbols[CHOOSE i \in DeclsOf(tree[n].up) : TRUE].id
         ELSE ContextOf(tree[n].up)

----------------------------------------------------------------------------
(* Properties *)

\* C1: in every parse_file result, a Symbol S with a non-null parent has
\* qualified_name = P.qualified_name + "." + S.name for the Symbol P whose id
\* is S.parent (stated for some such P, the weakest reading).
C1_QualifiedNameComposition ==
    Parsed =>
        \A i \in Idx : symbols[i].parent # NoId =>
            \E j \in Idx :
                /\ symbols[j].id = symbols[i].parent
                /\ symbols[i].qualified_name =
                       symbols[j].qualified_name \o <<".">> \o symbols[i].name

\* C2: no two Symbols of one parse_file result have the same id.
C2_UniqueIds ==
    Parsed => \A i, j \in Idx : i # j => symbols[i].id # symbols[j].id

\* C3: a non-null parent is the id of a Symbol at a strictly earlier position
\* of the result, and the Symbol of a node precedes the Symbols of all the
\* node's descendants.
C3_ParentPrecedes ==
    Parsed =>
        /\ \A i \in Idx : symbols[i].parent # NoId =>
               \E j \in 1..(i - 1) : symbols[j].id = symbols[i].parent
        /\ \A i, j \in Idx : origin[i] \in Ancestors(origin[j]) => i < j

\* C3 witness: a Symbol followed by two children of its own.
C3_Witness ==
    /\ Parsed
    /\ Len(symbols) = 3
    /\ symbols[2].parent = symbols[1].id
    /\ symbols[3].parent = symbols[1].id
    /\ symbols[2].id # symbols[1].id

\* C4: a node the active LanguageSpec maps to kind function that is extracted
\* with a non-null parent is emitted with kind method, its name, lines and
\* byte range being those of the node; no Symbol has both kind function and a
\* non-null parent.
C4_KindPromotion ==
    Parsed =>
        \A i \in Idx :
            /\ ~(symbols[i].kind = "function" /\ symbols[i].parent # NoId)
            /\ ( /\ IsSymbolNode(origin[i])
                 /\ symbols[i].kind # "constant"
                 /\ ActiveSpec.symbol_node_types[tree[origin[i]].type] = "function"
                 /\ symbols[i].parent # NoId )
               => /\ symbols[i].kind = "method"
                  /\ symbols[i].name =
                         ExtractName(tree[origin[i]], ActiveSpec, source_bytes)
                  /\ symbols[i].line = tree[origin[i]].start_row + 1
                  /\ symbols[i].byte_offset = tree[origin[i]].start_byte

\* C4 witness: a function node nested in an extracted declaration.
C4_Witness ==
    /\ Parsed
    /\ \E i \in Idx :
          /\ symbols[i].parent # NoId
          /\ symbols[i].kind = "method"
          /\ ActiveSpec.symbol_node_types[tree[origin[i]].type] = "function"

\* C5: an assignment located anywhere inside a function or class declaration
\* yields no constant Symbol.
C5_ConstantsOnlyTopLevel ==
    Parsed =>
        \A i \in Idx : symbols[i].kind = "constant" =>
            \A a \in Ancestors(origin[i]) : ~IsSymbolNode(a)

\* C6: every node is visited exactly once, and every node of a symbol type
\* that is not marked has_error and has an extractable name yields exactly one
\* Symbol.
C6_FullTraversal ==
    Parsed =>
        /\ \A n \in DOMAIN tree :
               Cardinality({k \in 1..Len(visited) : visited[k] = n}) = 1
        /\ \A n \in DOMAIN tree : Extractable(n) =>
               Cardinality({i \in Idx : origin[i] = n}) = 1

\* C6 witness: a Symbol from a node below a symbol node that is marked
\* has_error.
C6_Witness ==
    /\ Parsed
    /\ \E i \in Idx : \E a \in Ancestors(origin[i]) :
          IsSymbolNode(a) /\ tree[a].has_error

\* C7: a node of a symbol type that is marked has_error or has no extractable
\* name emits no Symbol, and its children are visited with the enclosing
\* context the node itself received.
C7_SkippedNodeKeepsContext ==
    Parsed =>
        \A n \in DOMAIN tree : (IsSymbolNode(n) /\ ~Extractable(n)) =>
            /\ \A i \in Idx : origin[i] # n
            /\ \A c \in DOMAIN tree : tree[c].up = n =>
                  /\ \E k \in 1..Len(visited) : visited[k] = c
                  /\ \A i \in DeclsOf(c) : symbols[i].parent = ContextOf(n)
                  /\ \A i \in Idx :
                        (origin[i] = c /\ symbols[i].kind = "constant")
                            => ContextOf(n) = NoId

\* C7 witness: a skipped node inside an extracted declaration, with a child
\* that is extracted.
C7_Witness ==
    /\ Parsed
    /\ \E n \in DOMAIN tree :
          /\ IsSymbolNode(n) /\ ~Extractable(n)
          /\ ContextOf(n) # NoId
          /\ \E c \in DOMAIN tree : tree[c].up = n /\ DeclsOf(c) # {}

\* C8: for a language tag outside the registry parse_file returns the empty
\* list and asks for no parser.
C8_UnsupportedLanguage ==
    (pc = "done" /\ language \notin DOMAIN LANGUAGE_REGISTRY) =>
        symbols = <<>> /\ parser_calls = 0

\* C8 witness: an unknown tag with content a known grammar finds a
\* declaration in.
C8_Witness ==
    /\ pc = "done"
    /\ language \notin DOMAIN LANGUAGE_REGISTRY
    /\ \E n \in DOMAIN tree :
          /\ tree[n].type = "function_definition"
          /\ ~tree[n].has_error
          /\ tree[n].name_end > tree[n].name_start

\* C9: every Symbol has the byte range of the node that produced it, inside
\* the source and not empty, and lines with 1 <= line <= end_line.
C9_ByteRange ==
    Parsed =>
        \A i \in Idx :
            /\ symbols[i].byte_offset = tree[origin[i]].start_byte
            /\ symbols[i].byte_length =
                   tree[origin[i]].end_byte - tree[origin[i]].start_byte
            /\ 0 <= symbols[i].byte_offset
            /\ symbols[i].byte_length > 0
            /\ symbols[i].byte_offset + symbols[i].byte_length <= Len(source_bytes)
            /\ symbols[i].line >= 1
            /\ symbols[i].end_line >= symbols[i].line

\* C9 witness: a declaration and a constant, the first spanning several lines
\* and ending before the end of the source.
C9_Witness ==
    /\ Parsed
    /\ \E i, j \in Idx :
          /\ symbols[i].kind # "constant"
          /\ symbols[i].byte_offset > 0
          /\ symbols[i].end_line > symbols[i].line
          /\ symbols[i].byte_offset + symbols[i].byte_length < Len(source_bytes)
          /\ symbols[j].kind = "constant"

\* C10: make_symbol_id yields slug(file_path) + "::" + qualified_name, and two
\* different (file_path, qualified_name) pairs never get the same identifier.
C10_GloballyUniqueIds ==
    \A x, y \in DOMAIN ids :
        /\ ids[x].id # NoId =>
               ids[x].id = slugify(ids[x].file_path) \o <<":", ":">>
                               \o ids[x].qualified_name
        /\ (ids[x].id # NoId /\ ids[x].id = ids[y].id) =>
               /\ ids[x].file_path = ids[y].file_path
               /\ ids[x].qualified_name = ids[y].qualified_name

----------------------------------------------------------------------------
(* Vocabulary of the hierarchy properties *)

Built == pc \in {"built", "flat"}
Flattened == pc = "flat"
Nodes == DOMAIN forest.symbol
\* how often x occurs in the list seq
Count(seq, x) == Cardinality({p \in DOMAIN seq : seq[p] = x})
\* how often node n occurs in the forest, as a root or as a child
Occurrences(n) ==
    Count(forest.roots, n) + Sum([m \in Nodes |-> Count(forest.children[m], n)],
                                 Len(forest.symbol))
FlatIdx == DOMAIN flat.result

\* C12: build_symbol_tree wraps every input Symbol in exactly one node that
\* occurs exactly once in the forest, and flatten_tree of the forest holds
\* every input Symbol exactly once and nothing else.
C12_OneNodePerSymbol ==
    /\ Built =>
          \A k \in DOMAIN batch :
              \E n \in Nodes :
                  /\ forest.symbol[n] = batch[k]
                  /\ Occurrences(n) = 1
                  /\ \A m \in Nodes :
                        (forest.symbol[m] = batch[k] /\ Occurrences(m) > 0)
                            => m = n
    /\ Flattened =>
          /\ ~flat.raised
          /\ Len(flat.result) = Len(batch)
          /\ \A k \in DOMAIN batch :
                Cardinality({p \in FlatIdx : flat.result[p].symbol = batch[k]}) = 1

\* the list of nodes seq follows the input order of the nodes' Symbols
InInputOrder(seq) == \A p, q \in DOMAIN seq : p < q => seq[p] < seq[q]

\* C13: the node of a Symbol is a root exactly when the Symbol's parent is
\* None or the id of no Symbol of the batch; otherwise it is a child of the
\* node of the Symbol whose id is that parent; roots and children keep the
\* input order.
C13_RootsAndChildren ==
    Built =>
        /\ \A k \in DOMAIN batch :
              Count(forest.roots, k) > 0
                  <=> ( \/ batch[k].parent = NoId
                        \/ \A j \in DOMAIN batch : batch[j].id # batch[k].parent )
        /\ \A k, j \in DOMAIN batch :
              (batch[k].parent # NoId /\ batch[j].id = batch[k].parent)
                  => Count(forest.children[j], k) > 0
        /\ InInputOrder(forest.roots)
        /\ \A n \in Nodes : InInputOrder(forest.children[n])

\* the forest is a finite acyclic forest: no node occurs twice in it
IsForest == \A n \in Nodes : Occurrences(n) <= 1

RECURSIVE Closure(_, _)
\* the nodes in S and, k levels deep, below them
Closure(S, k) ==
    IF k = 0 THEN S
    ELSE Closure(S \cup UNION {Range(forest.children[m]) : m \in S}, k - 1)

\* the nodes of the forest: the roots and all that is below them
ForestNodes == Closure(Range(forest.roots), Len(forest.symbol))

\* the last position of the block that starts at position p of the flat list:
\* p and the entries after it that are deeper than p's
BlockEnd(p) ==
    SetMax({q \in p..Len(flat.result) :
               \A r \in (p + 1)..q : flat.result[r].depth > flat.result[p].depth})

RECURSIVE NodesAtDepth(_, _, _)
\* the nodes of the entries of depth d at the positions lo..hi, in order
NodesAtDepth(lo, hi, d) ==
    IF lo > hi THEN <<>>
    ELSE (IF flat.result[lo].depth = d THEN <<flat.result[lo].node>> ELSE <<>>)
         \o NodesAtDepth(lo + 1, hi, d)

\* C14: flatten_tree of a finite acyclic forest emits every node exactly once
\* in pre-order: the entries of depth 0 are the roots in stored order, every
\* node is followed by the contiguous block of its descendants, whose entries
\* one level deeper are its children in stored order; an entry carries its
\* node's Symbol; the forest is left as build_symbol_tree returned it.
C14_PreOrder ==
    (Flattened /\ IsForest) =>
        /\ ~flat.raised
        /\ \A n \in ForestNodes :
              Cardinality({p \in FlatIdx : flat.result[p].node = n}) = 1
        /\ \A p \in FlatIdx :
              /\ flat.result[p].node \in ForestNodes
              /\ flat.result[p].symbol = forest.symbol[flat.result[p].node]
              /\ flat.result[p].depth >= 0
              /\ NodesAtDepth(p + 1, BlockEnd(p), flat.result[p].depth + 1)
                     = forest.children[flat.result[p].node]
              /\ \A q \in (p + 1)..BlockEnd(p) :
                    flat.result[q].depth
                        <= flat.result[q - 1].depth + 1
        /\ NodesAtDepth(1, Len(flat.result), 0) = forest.roots
        /\ (flat.result # <<>> => flat.result[1].depth = 0)
        /\ forest = build_symbol_tree(batch)

\* C14 witness: a root with a child that has a child of its own, flattened.
C14_Witness ==
    /\ Flattened /\ IsForest
    /\ Len(flat.result) = 3
    /\ flat.result[3].depth = 2

\* C15: under every interleaving of two parse_file invocations each one
\* returns what it returns when it runs alone, LANGUAGE_REGISTRY and its
\* LanguageSpecs stay as constructed, and the tree an invocation walks stays
\* as the parser returned it.
C15_Interleaving ==
    /\ registry = LANGUAGE_REGISTRY
    /\ \A t \in DOMAIN threads :
          /\ threads[t].pc = "walk" => threads[t].tree = calls[t].tree
          /\ threads[t].pc = "done" =>
                /\ threads[t].tree = calls[t].tree
                /\ threads[t].result =
                       ParseFile(calls[t].tree, calls[t].source_bytes,
                                 calls[t].filename, calls[t].language).walk.symbols

\* C15 witness: both invocations have returned Symbols, different ones, and
\* each took steps while the other was inside its walk.
C15_Witness ==
    /\ pc = "threads"
    /\ \A t \in Threads :
          /\ threads[t].pc = "done"
          /\ threads[t].overlapped
          /\ threads[t].result # <<>>
    /\ threads[1].result # threads[2].result

\* C16: when bytes read for a name do not decode as UTF-8, the failure
\* InvalidEncoding is reported and no Symbol carries a replacement character.
C16_InvalidEncoding ==
    (pc = "indexed" /\ ~Decode(disk.bytes, "strict").ok) =>
        /\ failure = "InvalidEncoding"
        /\ \A i \in Idx : ~InList(ReplacementChar, symbols[i].name)

\* the fields _symbol_to_dict stores
SymbolFields ==
    {"id", "file", "name", "qualified_name", "kind", "language", "signature",
     "docstring", "summary", "decorators", "keywords", "parent", "line",
     "end_line", "byte_offset", "byte_length"}

\* C17: load_index(owner, name) right after save_index(owner, name, ...)
\* returns a CodeIndex with repo owner/name and with the source_files, the
\* languages and, field by field and in order, the symbols passed to
\* save_index.
C17_SaveLoadRoundTrip ==
    (ret.op = "load_index" /\ ret.args # <<>>) =>
        /\ ret.value # <<>>
        /\ LET loaded == ret.value[1]
               passed == ret.args[1]
           IN  /\ loaded.repo = ret.owner \o <<"/">> \o ret.name
               /\ loaded.source_files = passed.source_files
               /\ loaded.languages = passed.languages
               /\ Len(loaded.symbols) = Len(passed.symbols)
               /\ \A i \in DOMAIN passed.symbols : \A f \in SymbolFields :
                     loaded.symbols[i][f] = passed.symbols[i][f]

\* C17 witness: a load right after a save of two Symbols, one with a parent
\* and a decorator, into an index file another pair had written before.
C17_Witness ==
    /\ ret.op = "load_index" /\ ret.args # <<>>
    /\ ret.owner = <<"a">> /\ ret.name = <<"b", "-", "c">>
    /\ last_op[<<<<"a", "-", "b">>, <<"c">>>>].op = "save_index"
    /\ Len(ret.args[1].symbols) = 2
    /\ ret.args[1].symbols[2].parent # NoId
    /\ ret.args[1].symbols[2].decorators # <<>>

\* C18: load_index(owner, name) returns an index exactly when the last of
\* the save_index and delete_index calls for the pair was save_index, and
\* list_repos returns exactly one entry for every such pair.
C18_LastCallDecides ==
    /\ ret.op = "load_index" =>
          (ret.value # <<>>
              <=> last_op[<<ret.owner, ret.name>>].op = "save_index")
    /\ ret.op = "list_repos" =>
          /\ Cardinality(DOMAIN ret.value)
                 = Cardinality({p \in DOMAIN last_op :
                                   last_op[p].op = "save_index"})
          /\ \A p \in DOMAIN last_op : last_op[p].op = "save_index" =>
                Cardinality({index_file \in DOMAIN ret.value :
                                ret.value[index_file].repo
                                    = p[1] \o <<"/">> \o p[2]}) = 1

\* C19: get_symbol_content(owner, name, symbol_id) is None when the pair has
\* no index, when no indexed Symbol has this id or when the Symbol's raw file
\* was not stored; otherwise it is the text of the bytes
\* [byte_offset, byte_offset + byte_length) of the file content the Symbol
\* with this id was extracted from, its complete declaration.
C19_SymbolContent ==
    ret.op = "get_symbol_content" =>
        LET saved == last_op[<<ret.owner, ret.name>>]
        IN  IF saved.op # "save_index" THEN ret.value = <<>>
            ELSE LET passed == saved.args[1]
                     hits == {i \in DOMAIN passed.symbols :
                                 passed.symbols[i].id = ret.args[1]}
                 IN  /\ hits = {} => ret.value = <<>>
                     /\ \A i \in hits :
                           LET symbol == passed.symbols[i]
                           IN  IF symbol.file \notin DOMAIN passed.raw_files
                               THEN ret.value = <<>>
                               ELSE ret.value =
                                   <<Decode(Slice(Encode(passed.raw_files[symbol.file]),
                                                  symbol.byte_offset,
                                                  symbol.byte_offset
                                                      + symbol.byte_length),
                                            "strict").text>>

\* text is the first sentence of docstring: the first line of the docstring
\* without the white space around either, cut after its first period, and at
\* most SummaryLimit characters of that
IsFirstSentence(text, docstring) ==
    LET line == Strip(FirstLine(Strip(docstring)))
        periods == {k \in 1..Len(line) : line[k] = "."}
        cut == IF periods = {} THEN Len(line)
               ELSE CHOOSE k \in periods : \A j \in periods : k <= j
        length == IF cut < SummaryLimit THEN cut ELSE SummaryLimit
    IN  /\ Len(text) = length
        /\ \A k \in 1..length : text[k] = line[k]

\* C20: after summarize_symbols_simple every Symbol has a non-empty summary:
\* the one it had; else the first sentence of its docstring when that is not
\* empty; else the signature fallback.  Nothing else of a Symbol changes.
C20_SimpleSummaries ==
    pc = "summarized" =>
        /\ Len(summarized) = Len(to_summarize)
        /\ \A i \in DOMAIN to_summarize :
              LET before == to_summarize[i]
                  after == summarized[i]
              IN  /\ after.summary # <<>>
                  /\ after = [before EXCEPT !.summary = after.summary]
                  /\ before.summary # <<>> => after.summary = before.summary
                  /\ before.summary = <<>> =>
                        IF IsFirstSentence(<<>>, before.docstring)
                        THEN after.summary = signature_fallback(before)
                        ELSE IsFirstSentence(after.summary, before.docstring)

\* C20 witness: a Symbol whose docstring has a first sentence longer than
\* the limit, followed by a Symbol that gets the signature fallback.
C20_Witness ==
    /\ pc = "summarized"
    /\ Len(summarized) = 2
    /\ to_summarize[1].summary = <<>>
    /\ Len(Strip(FirstLine(Strip(to_summarize[1].docstring)))) > SummaryLimit
    /\ Len(summarized[1].summary) = SummaryLimit
    /\ to_summarize[2].summary = <<>>
    /\ to_summarize[2].docstring = <<>>
    /\ summarized[2].summary = to_summarize[2].signature

----------------------------------------------------------------------------
(* Properties of the extracted fields *)

\* the ancestors of node n that produced a declaration Symbol
DeclAncestors(n) == {a \in Ancestors(n) : DeclsOf(a) # {}}

\* C21: the parent of a declaration Symbol is the id of the Symbol of the
\* nearest ancestor node that produced a declaration Symbol, None when no
\* ancestor produced one; a declaration Symbol of a following sibling of a
\* node that produced a Symbol has the parent that node's own Symbol has.
C21_NearestEnclosingSymbol ==
    Parsed =>
        /\ \A i \in Idx : symbols[i].kind # "constant" =>
              IF DeclAncestors(origin[i]) = {}
              THEN symbols[i].parent = NoId
              ELSE \A j \in DeclsOf(SetMax(DeclAncestors(origin[i]))) :
                      symbols[i].parent = symbols[j].id
        /\ \A n, s \in DOMAIN tree :
              (tree[n].up = tree[s].up /\ n < s) =>
                  \A i \in DeclsOf(n), j \in DeclsOf(s) :
                      symbols[j].parent = symbols[i].parent

\* C21 witness: a declaration with a declaration inside it and a declaration
\* after it, the three under different names.
C21_Witness ==
    /\ Parsed
    /\ Len(symbols) = 3
    /\ origin = <<2, 3, 4>>
    /\ tree[3].up = 2
    /\ tree[4].up = 1
    /\ symbols[2].parent = symbols[1].id
    /\ symbols[3].parent = NoId
    /\ symbols[3].name # symbols[1].name

----------------------------------------------------------------------------
(* Properties of the signature, the docstring and the decorators *)

QuoteChars == {"\"", "'"}

\* a statement that is a bare string literal: an expression_statement whose
\* only child is a string, or a string standing in the block itself
IsBareString(stmt) ==
    \/ stmt.type = "string"
    \/ /\ stmt.type = "expression_statement"
       /\ stmt.children # <<>>
       /\ stmt.children[1].type \in {"string", "concatenated_string"}

\* C22: under the leading-statement-string strategy the docstring of a
\* Symbol is the text of the first statement of its body without the quotes
\* when that statement is a bare string literal, and empty when the body is
\* absent, empty, or begins with another statement.
C22_LeadingStatementString ==
    (Parsed /\ ActiveSpec.docstring_strategy = "next_sibling_string") =>
        \A i \in Idx : symbols[i].kind # "constant" =>
            LET body == tree[origin[i]].body
                docstring == symbols[i].docstring
            IN  IF body # <<>> /\ body[1].children # <<>>
                   /\ IsBareString(body[1].children[1])
                THEN /\ docstring =
                            StripQuotes(NodeText(source_bytes, body[1].children[1]))
                     /\ docstring # <<>>
                     /\ docstring[1] \notin QuoteChars
                     /\ docstring[Len(docstring)] \notin QuoteChars
                ELSE docstring = <<>>

\* the leading comment markers, a longer marker before its prefixes
LeadingMarkers ==
    << <<"/", "*", "*">>, <<"/", "/", "/">>, <<"/", "/", "!">>,
       <<"/", "*">>, <<"/", "/">>, <<"*">> >>

\* the leading marker of a line: the first of LeadingMarkers it starts with
LeadingMarker(line) ==
    IF \E k \in DOMAIN LeadingMarkers : StartsWith(line, LeadingMarkers[k])
    THEN LeadingMarkers[CHOOSE k \in DOMAIN LeadingMarkers :
             /\ StartsWith(line, LeadingMarkers[k])
             /\ \A j \in 1..(k - 1) : ~StartsWith(line, LeadingMarkers[j])]
    ELSE <<>>

\* a line without its leading marker and its trailing */, trimmed
WithoutMarkers(line0) ==
    LET line == Strip(line0)
        lead == Len(LeadingMarker(line))
        trail == IF EndsWith(line, <<"*", "/">>) THEN 2 ELSE 0
    IN  IF lead + trail >= Len(line) THEN <<>>
        ELSE Strip(SubSeq(line, lead + 1, Len(line) - trail))

\* the comment block _extract_preceding_comments collects for a node
CommentBlock(node) ==
    LET run == PrecedingRun(node.prev, CommentTypes)
    IN  Join(<<"\n">>, [k \in DOMAIN run |-> NodeText(source_bytes, run[k])])

\* C23: the docstring built from a comment block holds every line of the
\* block without its complete leading marker (/**, /*, ///, //!, //, *) and
\* without a trailing */, trimmed; no character of a marker is left.
C23_CommentMarkersRemoved ==
    (Parsed /\ ActiveSpec.docstring_strategy = "preceding_comment") =>
        \A i \in Idx : symbols[i].kind # "constant" =>
            LET lines == Split(CommentBlock(tree[origin[i]]), "\n")
            IN  symbols[i].docstring =
                    Strip(Join(<<"\n">>,
                               [k \in DOMAIN lines |-> WithoutMarkers(lines[k])]))

\* the source text from the start of a node up to its body child, or up to
\* its end when it has no body child
TextBeforeBody(node) ==
    Decode(Slice(source_bytes, node.start_byte,
                 IF node.body # <<>> THEN node.body[1].start_byte
                 ELSE node.end_byte),
           "strict").text

\* C24: the signature of a declaration Symbol is the source text from the
\* start of its node up to the start of the body child (up to the end of the
\* node without one), without the white space around it and without the
\* trailing white space, "{" and ":"; it holds no text of the body.
C24_SignatureBeforeBody ==
    Parsed =>
        \A i \in Idx : symbols[i].kind # "constant" =>
            LET text == LStrip(TextBeforeBody(tree[origin[i]]))
                signature == symbols[i].signature
            IN  /\ Len(signature) <= Len(text)
                /\ signature = Prefix(text, Len(signature))
                /\ \A k \in (Len(signature) + 1)..Len(text) :
                      text[k] \in Whitespace \cup {"{", ":"}
                /\ signature # <<>> =>
                      signature[Len(signature)] \notin Whitespace \cup {"{", ":"}

\* C24 witness: a python declaration with a body whose signature lost a
\* colon, the blank before it and the line break after it.
C24_Witness ==
    /\ Parsed
    /\ language = "python"
    /\ \E i \in Idx :
          /\ tree[origin[i]].body # <<>>
          /\ tree[origin[i]].body[1].end_byte > tree[origin[i]].body[1].start_byte
          /\ Len(symbols[i].signature) + 4 = Len(TextBeforeBody(tree[origin[i]]))
          /\ symbols[i].signature # <<>>

\* the node is an assignment directly under a statement of the module
TopLevelAssignment(n) ==
    /\ tree[n].type = "assignment"
    /\ tree[n].up # 0
    /\ tree[tree[n].up].up = 1

\* the identifier on the left of an assignment node, empty when the left
\* side is no identifier
LeftIdentifier(n) ==
    IF tree[n].name_slot = "left" /\ tree[n].name_type = "identifier"
    THEN Decode(Slice(source_bytes, tree[n].name_start, tree[n].name_end),
                "strict").text
    ELSE <<>>

\* C25: a top-level assignment with an identifier on its left yields a
\* constant Symbol exactly when the name is all upper-case, or starts with an
\* upper-case letter and holds an underscore; a constant Symbol has kind
\* constant, no parent, its name as qualified_name, and the first 100
\* characters of the assignment text as signature.
C25_ConstantRule ==
    Parsed =>
        /\ \A n \in DOMAIN tree :
              (TopLevelAssignment(n) /\ LeftIdentifier(n) # <<>>) =>
                  LET name == LeftIdentifier(n)
                  IN  (\E i \in Idx : origin[i] = n /\ symbols[i].kind = "constant")
                          <=> \/ IsUpper(name)
                              \/ name[1] \in UpperChars /\ InList("_", name)
        /\ \A i \in Idx : symbols[i].kind = "constant" =>
              LET text == Decode(Slice(source_bytes, tree[origin[i]].start_byte,
                                       tree[origin[i]].end_byte), "strict").text
              IN  /\ symbols[i].parent = NoId
                  /\ symbols[i].name = LeftIdentifier(origin[i])
                  /\ symbols[i].qualified_name = symbols[i].name
                  /\ Len(text) <= ConstantSignatureLimit =>
                        symbols[i].signature = text
                  /\ Len(text) > ConstantSignatureLimit =>
                        /\ Len(symbols[i].signature) = ConstantSignatureLimit
                        /\ symbols[i].signature = SubSeq(text, 1, ConstantSignatureLimit)

\* C25 witness: a constant of mixed case with an underscore whose assignment
\* text is longer than the limit.
C25_Witness ==
    /\ Parsed
    /\ \E i \in Idx :
          /\ symbols[i].kind = "constant"
          /\ ~IsUpper(symbols[i].name)
          /\ tree[origin[i]].end_byte - tree[origin[i]].start_byte
                 > ConstantSignatureLimit
          /\ Len(symbols[i].signature) = ConstantSignatureLimit

\* the named siblings before node n whose types, and the types of all the
\* siblings between them and n, are in types: the maximal run that ends
\* right before n
RunBefore(n, types) ==
    {s \in DOMAIN tree :
        /\ s < n
        /\ tree[s].up = tree[n].up
        /\ \A m \in s..(n - 1) : tree[m].up = tree[n].up => tree[m].type \in types}

RECURSIVE Ascending(_)
\* the numbers of a set, the least first
Ascending(S) ==
    IF S = {} THEN <<>>
    ELSE LET least == CHOOSE x \in S : \A y \in S : x <= y
         IN  <<least>> \o Ascending(S \ {least})

\* the texts of the nodes of a set, in source order
TextsOf(S) ==
    [k \in DOMAIN Ascending(S) |->
        Decode(Slice(source_bytes, tree[Ascending(S)[k]].start_byte,
                     tree[Ascending(S)[k]].end_byte), "strict").text]

\* C26: under the preceding-comment strategy the docstring is built from the
\* maximal run of comment nodes right before the node among its named
\* siblings, in source order, and is empty when the nearest such sibling is
\* no comment; the decorators are the texts of the maximal run of siblings of
\* type decorator_node_type right before the node, in source order, and
\* empty when the LanguageSpec has no decorator_node_type.
C26_PrecedingRuns ==
    Parsed =>
        \A i \in Idx : symbols[i].kind # "constant" =>
            LET comments == RunBefore(origin[i], CommentTypes)
                decorated == RunBefore(origin[i], {ActiveSpec.decorator_node_type})
            IN  /\ ActiveSpec.docstring_strategy = "preceding_comment" =>
                      symbols[i].docstring =
                          IF comments = {} THEN <<>>
                          ELSE CleanCommentMarkers(Join(<<"\n">>, TextsOf(comments)))
                /\ symbols[i].decorators =
                      IF ActiveSpec.decorator_node_type = None THEN <<>>
                      ELSE [k \in DOMAIN TextsOf(decorated) |->
                               Strip(TextsOf(decorated)[k])]

\* C26 witness: a declaration behind a comment and a decorator, in this
\* order: the decorator is collected and the comment is not reached.
C26_Witness ==
    /\ Parsed
    /\ ActiveSpec.docstring_strategy = "preceding_comment"
    /\ \E i \in Idx :
          /\ origin[i] = 4
          /\ tree[2].type \in CommentTypes
          /\ tree[3].type = ActiveSpec.decorator_node_type
          /\ Len(symbols[i].decorators) = 1
          /\ symbols[i].docstring = <<>>

----------------------------------------------------------------------------
(* Properties of the outline of a parsed file *)

\* the nodes below node n of the forest
Descendants(n) == Closure(Range(forest.children[n]), Len(forest.symbol))

\* C27: the forest build_symbol_tree makes of a parse_file result is
\* acyclic: no Symbol has its own id as parent, no SymbolNode is among its
\* own descendants, and flatten_tree ends on it.
C27_AcyclicForest ==
    /\ pc \in {"built", "flat"} =>
          /\ \A k \in DOMAIN batch : batch[k].parent # batch[k].id
          /\ \A n \in Nodes : n \notin Descendants(n)
    /\ pc = "flat" => ~flat.raised

\* C28: flatten_tree of build_symbol_tree of a parse_file result L lists the
\* Symbols of L in the order of L, each with the number of Symbols its
\* node's ancestors produced as depth (the declaration Symbols: the node of
\* a constant, an assignment, holds no declaration in the python grammar).
C28_FlattenIsIdentity ==
    pc = "flat" =>
        /\ ~flat.raised
        /\ Len(flat.result) = Len(symbols)
        /\ \A p \in DOMAIN flat.result :
              /\ flat.result[p].symbol = symbols[p]
              /\ flat.result[p].depth = Cardinality(DeclAncestors(origin[p]))

----------------------------------------------------------------------------
(* Properties of the language registry *)

\* C29: every node type of symbol_node_types other than arrow_function has a
\* name_fields entry or is type_declaration; a node of such a type that the
\* parser accepted with its identifier yields a Symbol; and a declaration
\* directly inside a container of such a type has the container's Symbol as
\* parent.
C29_ListedTypesYieldSymbols ==
    /\ \A lang \in DOMAIN LANGUAGE_REGISTRY :
          \A type \in DOMAIN LANGUAGE_REGISTRY[lang].symbol_node_types
                          \ {"arrow_function"} :
              \/ type \in DOMAIN LANGUAGE_REGISTRY[lang].name_fields
              \/ type = "type_declaration"
    /\ Parsed =>
          \A n \in DOMAIN tree :
              ( /\ IsSymbolNode(n)
                /\ tree[n].type # "arrow_function"
                /\ ~tree[n].has_error ) =>
                  /\ tree[n].name_end > tree[n].name_start => DeclsOf(n) # {}
                  /\ InList(tree[n].type, ActiveSpec.container_node_types) =>
                        \A c \in DOMAIN tree : tree[c].up = n =>
                            \A i \in DeclsOf(c) :
                                /\ DeclsOf(n) # {}
                                /\ \A j \in DeclsOf(n) :
                                      symbols[i].parent = symbols[j].id

\* the node types of constant_patterns other than assignment
OtherConstantPatterns ==
    {"lexical_declaration", "const_declaration", "const_item", "static_item",
     "field_declaration"}

====
